---- MODULE Spec2Model ----
(***************************************************************************)
(* Model of the keep-ecdsa client (pkg/client/client.go) for one keep as   *)
(* seen by one operator: the goroutines started by Initialize, the event   *)
(* handlers for BondedECDSAKeepCreated, SignatureRequested, KeepClosed and *)
(* KeepTerminated, and the host chain they read.  SpecBroadcast models one *)
(* invocation of tss.BroadcastRecoveryAddress.                             *)
(***************************************************************************)
EXTENDS Bags, FiniteSets, Integers, Naturals, Sequences, TLC

\* client.go:40  const blockConfirmations = 12
blockConfirmations == 12

\* Events are emitted at blocks 0..MaxEventBlock; the chain is followed for
\* blockConfirmations more blocks so that every wait can end.
MaxEventBlock == 0
MaxBlock == MaxEventBlock + blockConfirmations

\* Number of handler goroutines of one kind that are alive at the same time.
MaxHandlers == 2

\* Cap of the history counter of CalculateSignature invocations per digest.
MaxSignCalls == 2

\* Cap of the history counter of GenerateSignerForKeep invocations.
MaxKeyGenCalls == 2

Digests == {"d1", "d2"}
NoDigest == "none"
NoBlock == 0 - 1

VARIABLES
    block,          \* hostChain.BlockCounter(): the current block
    keepActive,     \* keep.IsActive()
    chainPubKey,    \* keep.GetPublicKey() is non-empty
    awaiting,       \* the digest keep.IsAwaitingSignature answers true for
    latestDigest,   \* keep.LatestDigest()
    requestedBlock, \* keep.SignatureRequestedBlock(digest)
    events,         \* events emitted by the chain: [kind, d, blk]
    group,          \* the keep's group: [size, threshold, member]
    registry,       \* keepsRegistry entry of the keep
    snapshot,       \* signer material written to storage
    nodeSubmitted,  \* this operator submitted the keep's public key
    dedup,          \* eventDeduplicator: the keys being handled
    subs,           \* per-keep subscriptions: "none", "on", "off"
    goroutines,     \* bag of running goroutines
    crashed,        \* the process died of a panic
    signCalls,      \* history: CalculateSignature invocations per digest
    keyGenCalls,    \* history: GenerateSignerForKeep invocations
    \* tss.BroadcastRecoveryAddress, one invocation:
    input,              \* what each sender announces, unconvertible IDs
    parentCtx,          \* parentCtx.Err()
    ctx,                \* ctx.Err()
    msgInChan,          \* the buffered channel of received announcements
    memberRecoveryInfo, \* the map of recorded announcements
    bpc,                \* positions of the caller and the two goroutines
    result,             \* what BroadcastRecoveryAddress returned
    \* checkAwaitingKeyGeneration over the keeps of the factory:
    now,                \* time.Now()
    factory,            \* the factory's keeps, index 0 first
    scan,               \* the loop: its position and keepIndex
    scanLog,            \* history: what the loop read, checked and started
    \* transaction submission of the ethereum Chain:
    locks,              \* the mutexes that are held
    txs,                \* per submitting contract: position and nonce
    nextNonce,          \* the account's next pending nonce
    submitted,          \* history: the nonces of the submitted transactions
    \* a chain handle with its subscriptions:
    keeps,              \* the keeps of the chain and their public keys
    handlers,           \* the installed event handlers
    nextSub,            \* number of subscriptions made
    emitted,            \* history: the events the chain emitted
    calls,              \* history: the handler invocations
    lastSubmit,         \* the last SubmitKeepPublicKey call and its error
    \* persistence of a ThresholdSigner:
    signer,             \* the signer in memory
    stored,             \* the marshalled signer on disk
    loaded,             \* the signer unmarshalled after a restart
    \* the rewards distributor:
    allocated,          \* per merkle root: the amount allocated
    claimed,            \* the (merkleRoot, index) pairs marked as claimed
    balance,            \* the distributor's token balance
    paid,               \* history: the amounts of the successful claims
    lastClaim           \* the last claim call and its outcome

chainVars == <<block, keepActive, chainPubKey, awaiting, latestDigest,
               requestedBlock, events, group>>

storeVars == <<registry, snapshot, nodeSubmitted>>

histVars == <<signCalls, keyGenCalls>>

nodeVars == <<storeVars, dedup, subs, goroutines, crashed, histVars>>

clientVars == <<chainVars, nodeVars>>

broadcastVars == <<input, parentCtx, ctx, msgInChan, memberRecoveryInfo, bpc,
                   result>>

scanVars == <<now, factory, scan, scanLog>>

\* The variables of the parts that are followed on their own.
txVars == <<locks, txs, nextNonce, submitted>>

chainSubVars == <<keeps, handlers, nextSub, emitted, calls, lastSubmit>>

marshalVars == <<signer, stored, loaded>>

rewardVars == <<allocated, claimed, balance, paid, lastClaim>>

extVars == <<scanVars, txVars, chainSubVars, marshalVars, rewardVars>>

\* What the actions of one part leave unchanged of the other parts.
notScanVars == <<clientVars, broadcastVars, txVars, chainSubVars,
                 marshalVars, rewardVars>>

notTxVars == <<clientVars, broadcastVars, scanVars, chainSubVars,
               marshalVars, rewardVars>>

notChainSubVars == <<clientVars, broadcastVars, scanVars, txVars,
                     marshalVars, rewardVars>>

notMarshalVars == <<clientVars, broadcastVars, scanVars, txVars,
                    chainSubVars, rewardVars>>

notRewardVars == <<clientVars, broadcastVars, scanVars, txVars,
                   chainSubVars, marshalVars>>

vars == <<clientVars, broadcastVars, extVars>>

----------------------------------------------------------------------------
\* Goroutines.  One record per goroutine:
\*   fn   the function it runs        pc   its position
\*   d    the digest it handles       blk  the block that triggered it
\*   key  the dedup key kind it holds ("none" when it holds none)
\*   conf the block at which its confirmation re-check passed (NoBlock if none)
\*   exp  TRUE once the retry deadline of DoWithDefaultRetry has elapsed
\*   fault TRUE when the chain client fails during the confirmation wait of
\*        the current signing attempt

G(fn, pc, d, blk, key, conf, exp) ==
    [fn |-> fn, pc |-> pc, d |-> d, blk |-> blk, key |-> key,
     conf |-> conf, exp |-> exp, fault |-> FALSE]

Running == BagToSet(goroutines)

Spawn(bag, g) == bag (+) SetToBag({g})

Exit(bag, g) == bag (-) SetToBag({g})

Step(bag, g, h) == Spawn(Exit(bag, g), h)

\* Number of live goroutines running fn.
Alive(fn) ==
    LET S == {g \in Running : g.fn = fn}
    IN  BagCardinality([g \in S |-> goroutines[g]])

\* Goroutines holding the dedup key (kind, d), with multiplicity.
Holders(kind, d) ==
    LET S == {g \in Running : g.key = kind /\ g.d = d}
    IN  BagCardinality([g \in S |-> goroutines[g]])

Key(kind, d) == <<kind, d>>

EventsOf(kind) == {e \in events : e.kind = kind}

----------------------------------------------------------------------------
\* Collaborators that live outside the client package.

\* ethlike.WaitForBlockConfirmations: waits for startBlock + confirmations,
\* then evaluates the state check.  TRUE when the wait is over.
WaitForBlockConfirmations(startBlock, confirmations) ==
    block >= startBlock + confirmations

\* event.Deduplicator Notify*Started for the key-generation, closing and
\* terminating kinds: shouldHandle is true iff the key is not being handled.
NotifyStarted(kind, d) == Key(kind, d) \notin dedup

\* event.Deduplicator.NotifySigningStarted: the outcomes it can produce.
\* "dup" is (false, nil), "handle" is (true, nil), "err" is (false, err).
NotifySigningStarted(d) ==
    IF Key("Signing", d) \in dedup
    THEN {"dup"}
    ELSE {"err"} \cup (IF awaiting = d THEN {"handle"} ELSE {"dup"})

\* event.Deduplicator Notify*Completed.
NotifyCompleted(kind, d) == dedup \ {Key(kind, d)}

----------------------------------------------------------------------------
\* The host chain.

MineBlock ==
    /\ block < MaxBlock
    /\ block' = block + 1
    /\ UNCHANGED <<keepActive, chainPubKey, awaiting, latestDigest,
                   requestedBlock, events, group, nodeVars, broadcastVars, extVars>>

\* The keep owner requests a signature over digest d.
RequestSignature(d) ==
    /\ keepActive /\ chainPubKey
    /\ block <= MaxEventBlock
    /\ awaiting = NoDigest
    /\ \A e \in EventsOf("sig") : e.d # d      \* a digest is requested once
    /\ awaiting' = d
    /\ latestDigest' = d
    /\ requestedBlock' = [requestedBlock EXCEPT ![d] = block]
    /\ events' = events \cup {[kind |-> "sig", d |-> d, blk |-> block]}
    /\ UNCHANGED <<block, keepActive, chainPubKey, group, nodeVars,
                   broadcastVars, extVars>>

\* The keep stops awaiting the digest: the request was dropped by a chain
\* reorganisation, timed out, or the signature was submitted by a peer.
SignatureSettled ==
    /\ awaiting # NoDigest
    /\ awaiting' = NoDigest
    /\ UNCHANGED <<block, keepActive, chainPubKey, latestDigest,
                   requestedBlock, events, group, nodeVars, broadcastVars, extVars>>

----------------------------------------------------------------------------
\* monitorSigningRequests: the handler of SignatureRequested events.

\* The subscription invokes the handler, which starts a goroutine.
\* `go func(event ...)` in the callback: the callback returns at once, so
\* the delivery of an event does not wait for the handlers in progress.
CallbackRunsHandler(inProgress) == inProgress = 0

CallbackReturns(inProgress) == TRUE

DeliverSignatureRequested(e) ==
    /\ subs.sig = "on"
    /\ e \in EventsOf("sig")
    /\ Alive("sigEvent") < MaxHandlers
    /\ CallbackReturns(Alive("sigEvent"))
    /\ goroutines' = Spawn(goroutines,
           G("sigEvent", "start", e.d, e.blk, "none", NoBlock, FALSE))
    /\ UNCHANGED <<chainVars, storeVars, dedup, subs, crashed, histVars,
                   broadcastVars, extVars>>

\* The signing deadline of DoWithDefaultRetry elapses.
RetryDeadline(g) ==
    /\ g.fn \in {"sigEvent", "checkSig"}
    /\ g.pc \in {"start", "confirm", "sign"}
    /\ ~g.exp
    /\ goroutines' = Step(goroutines, g, [g EXCEPT !.exp = TRUE])
    /\ UNCHANGED <<chainVars, storeVars, dedup, subs, crashed, histVars,
                   broadcastVars, extVars>>

\* DoWithDefaultRetry gives up: the deadline elapsed before an attempt.
RetryGiveUp(g) ==
    /\ g.fn \in {"sigEvent", "checkSig"}
    /\ g.pc = "start"
    /\ g.exp
    /\ goroutines' = Exit(goroutines, g)
    /\ UNCHANGED <<chainVars, storeVars, dedup, subs, crashed, histVars,
                   broadcastVars, extVars>>

\* A handler that signs whatever the re-check answers.
SignUnconfirmed(isAwaitingSignature) == TRUE

\* `if !isAwaitingSignature { return nil }` : sign only when still awaiting.
ShouldSign(isAwaitingSignature) == isAwaitingSignature

\* What the retried operation returns after CalculateSignature: `return err`
\* names the err of the enclosing scope (the confirmation's, nil here); the
\* err of CalculateSignature is scoped to the if statement.
SigningOpError(confirmErr, calcErr) == confirmErr

\* A handler that goes on whatever NotifySigningStarted answers.
ProceedUndeduplicated(shouldHandle) == TRUE

\* `if !shouldHandle { return nil }` in the signature handler.
ProceedSigning(shouldHandle) == shouldHandle

\* NotifySigningStarted at the start of an attempt.
SigEventStart(g) ==
    /\ g.fn = "sigEvent" /\ g.pc = "start" /\ ~g.exp
    /\ \E res \in NotifySigningStarted(g.d), fault \in BOOLEAN :
          IF res = "err"
          THEN UNCHANGED <<goroutines, dedup>>      \* return err, retried
          ELSE IF ProceedSigning(res = "handle")
               THEN /\ dedup' = dedup \cup {Key("Signing", g.d)}
                    /\ goroutines' = Step(goroutines, g,
                           [g EXCEPT !.pc = "confirm", !.key = "Signing",
                                     !.fault = fault])
               ELSE /\ goroutines' = Exit(goroutines, g)
                    /\ UNCHANGED dedup
    /\ UNCHANGED <<chainVars, storeVars, subs, crashed, histVars,
                   broadcastVars, extVars>>

\* WaitForBlockConfirmations(event.BlockNumber) and the decision to sign.
SigEventConfirm(g) ==
    /\ g.fn = "sigEvent" /\ g.pc = "confirm"
    /\ \/ \* the wait or the re-check failed: return err, retried
          /\ g.fault
          /\ dedup' = NotifyCompleted("Signing", g.d)
          /\ goroutines' = Step(goroutines, g,
                 [g EXCEPT !.pc = "start", !.key = "none", !.fault = FALSE])
          /\ UNCHANGED signCalls
       \/ /\ ~g.fault
          /\ WaitForBlockConfirmations(g.blk, blockConfirmations)
          /\ IF ShouldSign(awaiting = g.d)
             THEN /\ signCalls[g.d] < MaxSignCalls
                  /\ signCalls' = [signCalls EXCEPT ![g.d] = @ + 1]
                  /\ goroutines' = Step(goroutines, g,
                         [g EXCEPT !.pc = "sign",
                                   !.conf = IF awaiting = g.d THEN block
                                            ELSE NoBlock])
                  /\ UNCHANGED dedup
             ELSE /\ dedup' = NotifyCompleted("Signing", g.d)
                  /\ goroutines' = Exit(goroutines, g)
                  /\ UNCHANGED signCalls
    /\ UNCHANGED <<chainVars, storeVars, subs, crashed, keyGenCalls,
                   broadcastVars, extVars>>

\* tssNode.CalculateSignature returns; the key is released by the defer.
SigEventCalculate(g) ==
    /\ g.fn = "sigEvent" /\ g.pc = "sign"
    /\ \E calcErr \in (IF g.exp THEN {TRUE} ELSE BOOLEAN) :
          /\ awaiting' = IF ~calcErr /\ awaiting = g.d THEN NoDigest
                          ELSE awaiting
          /\ dedup' = NotifyCompleted("Signing", g.d)
          /\ IF SigningOpError(FALSE, calcErr)
             THEN goroutines' = Step(goroutines, g,
                      [g EXCEPT !.pc = "start", !.key = "none",
                                !.conf = NoBlock])
             ELSE goroutines' = Exit(goroutines, g)
    /\ UNCHANGED <<block, keepActive, chainPubKey, latestDigest,
                   requestedBlock, events, group, storeVars, subs, crashed,
                   histVars, broadcastVars, extVars>>

----------------------------------------------------------------------------
\* checkAwaitingSignature: the startup check started by
\* monitorSigningRequests before it subscribes.

\* keep.LatestDigest and keep.IsAwaitingSignature(latestDigest).
CheckSigRead(g) ==
    /\ g.fn = "checkSig" /\ g.pc = "latest"
    /\ \/ goroutines' = Exit(goroutines, g)     \* a read failed
       \/ IF latestDigest # NoDigest /\ awaiting = latestDigest
          THEN goroutines' = Step(goroutines, g,
                   [g EXCEPT !.pc = "start", !.d = latestDigest])
          ELSE goroutines' = Exit(goroutines, g)
    /\ UNCHANGED <<chainVars, storeVars, dedup, subs, crashed, histVars,
                   broadcastVars, extVars>>

\* NotifySigningStarted, then keep.SignatureRequestedBlock(latestDigest).
CheckSigStart(g) ==
    /\ g.fn = "checkSig" /\ g.pc = "start" /\ ~g.exp
    /\ \E res \in NotifySigningStarted(g.d), fault \in BOOLEAN :
          IF res = "err"
          THEN UNCHANGED <<goroutines, dedup>>      \* return err, retried
          ELSE IF ProceedSigning(res = "handle")
               THEN \/ /\ dedup' = dedup \cup {Key("Signing", g.d)}
                       /\ goroutines' = Step(goroutines, g,
                              [g EXCEPT !.pc = "confirm", !.key = "Signing",
                                        !.blk = requestedBlock[g.d],
                                        !.fault = fault])
                    \/ \* SignatureRequestedBlock failed: released, retried
                       UNCHANGED <<goroutines, dedup>>
               ELSE /\ goroutines' = Exit(goroutines, g)
                    /\ UNCHANGED dedup
    /\ UNCHANGED <<chainVars, storeVars, subs, crashed, histVars,
                   broadcastVars, extVars>>

\* The state check of the startup path: awaiting the digest and active.
StillAwaiting(isAwaitingSignature, isActive) ==
    isAwaitingSignature /\ isActive

CheckSigConfirm(g) ==
    /\ g.fn = "checkSig" /\ g.pc = "confirm"
    /\ \/ \* the wait or the re-check failed: return err, retried
          /\ g.fault
          /\ dedup' = NotifyCompleted("Signing", g.d)
          /\ goroutines' = Step(goroutines, g,
                 [g EXCEPT !.pc = "start", !.key = "none", !.fault = FALSE])
          /\ UNCHANGED signCalls
       \/ /\ ~g.fault
          /\ WaitForBlockConfirmations(g.blk, blockConfirmations)
          /\ IF ShouldSign(StillAwaiting(awaiting = g.d, keepActive))
             THEN /\ signCalls[g.d] < MaxSignCalls
                  /\ signCalls' = [signCalls EXCEPT ![g.d] = @ + 1]
                  /\ goroutines' = Step(goroutines, g,
                         [g EXCEPT !.pc = "sign",
                                   !.conf = IF awaiting = g.d THEN block
                                            ELSE NoBlock])
                  /\ UNCHANGED dedup
             ELSE /\ dedup' = NotifyCompleted("Signing", g.d)
                  /\ goroutines' = Exit(goroutines, g)
                  /\ UNCHANGED signCalls
    /\ UNCHANGED <<chainVars, storeVars, subs, crashed, keyGenCalls,
                   broadcastVars, extVars>>

CheckSigCalculate(g) ==
    /\ g.fn = "checkSig" /\ g.pc = "sign"
    /\ \E calcErr \in (IF g.exp THEN {TRUE} ELSE BOOLEAN) :
          /\ awaiting' = IF ~calcErr /\ awaiting = g.d THEN NoDigest
                          ELSE awaiting
          /\ dedup' = NotifyCompleted("Signing", g.d)
          /\ IF SigningOpError(FALSE, calcErr)
             THEN goroutines' = Step(goroutines, g,
                      [g EXCEPT !.pc = "start", !.key = "none",
                                !.conf = NoBlock])
             ELSE goroutines' = Exit(goroutines, g)
    /\ UNCHANGED <<block, keepActive, chainPubKey, latestDigest,
                   requestedBlock, events, group, storeVars, subs, crashed,
                   histVars, broadcastVars, extVars>>

----------------------------------------------------------------------------
\* The host chain: the end of a keep.

CloseKeep ==
    /\ keepActive
    /\ block <= MaxEventBlock
    /\ EventsOf("created") # {}
    /\ keepActive' = FALSE
    /\ events' = events \cup
           {[kind |-> "closed", d |-> NoDigest, blk |-> block]}
    /\ UNCHANGED <<block, chainPubKey, awaiting, latestDigest,
                   requestedBlock, group, nodeVars, broadcastVars, extVars>>

TerminateKeep ==
    /\ keepActive
    /\ block <= MaxEventBlock
    /\ EventsOf("created") # {}
    /\ keepActive' = FALSE
    /\ events' = events \cup
           {[kind |-> "terminated", d |-> NoDigest, blk |-> block]}
    /\ UNCHANGED <<block, chainPubKey, awaiting, latestDigest,
                   requestedBlock, group, nodeVars, broadcastVars, extVars>>

\* A chain reorganisation drops the transaction that ended the keep.
ReorgReactivate ==
    /\ ~keepActive
    /\ keepActive' = TRUE
    /\ UNCHANGED <<block, chainPubKey, awaiting, latestDigest,
                   requestedBlock, events, group, nodeVars, broadcastVars, extVars>>

----------------------------------------------------------------------------
\* registry.Keeps

HasSigner == registry = "registered"

\* UnregisterKeep archives the keep; idempotent.
UnregisterKeep == IF registry = "registered" THEN "archived" ELSE registry

----------------------------------------------------------------------------
\* monitorKeepClosedEvents

\* keep.OnKeepClosed
MonitorClosedSubscribe(g) ==
    /\ g.fn = "monitorClosed" /\ g.pc = "subscribe"
    /\ \/ /\ goroutines' = Exit(goroutines, g)      \* subscription failed
          /\ UNCHANGED subs
       \/ /\ subs' = [subs EXCEPT !.closed = "on"]
          /\ goroutines' = Step(goroutines, g, [g EXCEPT !.pc = "wait"])
    /\ UNCHANGED <<chainVars, storeVars, dedup, crashed, histVars,
                   broadcastVars, extVars>>

DeliverKeepClosed(e) ==
    /\ subs.closed = "on"
    /\ e \in EventsOf("closed")
    /\ Alive("closedEvent") < MaxHandlers
    /\ goroutines' = Spawn(goroutines,
           G("closedEvent", "start", NoDigest, e.blk, "none", NoBlock, FALSE))
    /\ UNCHANGED <<chainVars, storeVars, dedup, subs, crashed, histVars,
                   broadcastVars, extVars>>

\* A handler that goes on whatever NotifyClosingStarted answers.
ProceedClosingUndeduplicated(shouldHandle) == TRUE

\* `if shouldHandle := NotifyClosingStarted(...); !shouldHandle { return }`
ProceedClosing(shouldHandle) == shouldHandle

ClosedStart(g) ==
    /\ g.fn = "closedEvent" /\ g.pc = "start"
    /\ IF ProceedClosing(NotifyStarted("Closing", NoDigest))
       THEN /\ dedup' = dedup \cup {Key("Closing", NoDigest)}
            /\ goroutines' = Step(goroutines, g,
                   [g EXCEPT !.pc = "confirm", !.key = "Closing"])
       ELSE /\ goroutines' = Exit(goroutines, g)
            /\ UNCHANGED dedup
    /\ UNCHANGED <<chainVars, storeVars, subs, crashed, histVars,
                   broadcastVars, extVars>>

\* A handler that unregisters whatever keep.IsActive answers.
UnconfirmedInactive(isKeepActive) == TRUE

\* `if isKeepActive { return }` after the confirmation wait.
ConfirmedInactive(isKeepActive) == ~isKeepActive

ClosedConfirm(g) ==
    /\ g.fn = "closedEvent" /\ g.pc = "confirm"
    /\ \/ /\ dedup' = NotifyCompleted("Closing", NoDigest)  \* check failed
          /\ goroutines' = Exit(goroutines, g)
       \/ /\ WaitForBlockConfirmations(g.blk, blockConfirmations)
          /\ IF ConfirmedInactive(keepActive)
             THEN /\ goroutines' = Step(goroutines, g,
                         [g EXCEPT !.pc = "unregister",
                                   !.conf = IF keepActive THEN NoBlock
                                            ELSE block])
                  /\ UNCHANGED dedup
             ELSE /\ dedup' = NotifyCompleted("Closing", NoDigest)
                  /\ goroutines' = Exit(goroutines, g)
    /\ UNCHANGED <<chainVars, storeVars, subs, crashed, histVars,
                   broadcastVars, extVars>>

\* keepsRegistry.UnregisterKeep(keep.ID())
ClosedUnregister(g) ==
    /\ g.fn = "closedEvent" /\ g.pc = "unregister"
    /\ registry' = UnregisterKeep
    /\ goroutines' = Step(goroutines, g, [g EXCEPT !.pc = "send"])
    /\ UNCHANGED <<chainVars, snapshot, nodeSubmitted, dedup, subs, crashed,
                   histVars, broadcastVars, extVars>>

\* keepClosed <- event meets <-keepClosed: the handler returns and releases
\* its key, the monitor goes on to its deferred calls.
ClosedHandOver(g, m) ==
    /\ g.fn = "closedEvent" /\ g.pc = "send"
    /\ m.fn = "monitorClosed" /\ m.pc = "wait"
    /\ dedup' = NotifyCompleted("Closing", NoDigest)
    /\ goroutines' = Step(Exit(goroutines, g), m, [m EXCEPT !.pc = "unsub"])
    /\ UNCHANGED <<chainVars, storeVars, subs, crashed, histVars,
                   broadcastVars, extVars>>

\* defer subscriptionOnSignatureRequested.Unsubscribe()
\* defer subscriptionOnKeepClosed.Unsubscribe()
MonitorClosedUnsubscribe(m) ==
    /\ m.fn = "monitorClosed" /\ m.pc = "unsub"
    /\ subs' = [subs EXCEPT !.sig = "off", !.closed = "off"]
    /\ goroutines' = Exit(goroutines, m)
    /\ UNCHANGED <<chainVars, storeVars, dedup, crashed, histVars,
                   broadcastVars, extVars>>

----------------------------------------------------------------------------
\* monitorKeepTerminatedEvent

\* keep.OnKeepTerminated
MonitorTerminatedSubscribe(g) ==
    /\ g.fn = "monitorTerminated" /\ g.pc = "subscribe"
    /\ \/ /\ goroutines' = Exit(goroutines, g)      \* subscription failed
          /\ UNCHANGED subs
       \/ /\ subs' = [subs EXCEPT !.terminated = "on"]
          /\ goroutines' = Step(goroutines, g, [g EXCEPT !.pc = "wait"])
    /\ UNCHANGED <<chainVars, storeVars, dedup, crashed, histVars,
                   broadcastVars, extVars>>

DeliverKeepTerminated(e) ==
    /\ subs.terminated = "on"
    /\ e \in EventsOf("terminated")
    /\ Alive("terminatedEvent") < MaxHandlers
    /\ goroutines' = Spawn(goroutines,
           G("terminatedEvent", "start", NoDigest, e.blk, "none", NoBlock,
             FALSE))
    /\ UNCHANGED <<chainVars, storeVars, dedup, subs, crashed, histVars,
                   broadcastVars, extVars>>

\* `if shouldHandle := NotifyTerminatingStarted(...); !shouldHandle { return }`
ProceedTerminating(shouldHandle) == shouldHandle

TerminatedStart(g) ==
    /\ g.fn = "terminatedEvent" /\ g.pc = "start"
    /\ IF ProceedTerminating(NotifyStarted("Terminating", NoDigest))
       THEN /\ dedup' = dedup \cup {Key("Terminating", NoDigest)}
            /\ goroutines' = Step(goroutines, g,
                   [g EXCEPT !.pc = "confirm", !.key = "Terminating"])
       ELSE /\ goroutines' = Exit(goroutines, g)
            /\ UNCHANGED dedup
    /\ UNCHANGED <<chainVars, storeVars, subs, crashed, histVars,
                   broadcastVars, extVars>>

\* A handler that starts the recovery whatever keep.IsActive returned.
UnconfirmedTerminated(isKeepActive) == TRUE

\* `if isKeepActive { return }` after the confirmation wait.
ConfirmedTerminated(isKeepActive) == ~isKeepActive

TerminatedConfirm(g) ==
    /\ g.fn = "terminatedEvent" /\ g.pc = "confirm"
    /\ \/ /\ dedup' = NotifyCompleted("Terminating", NoDigest)
          /\ goroutines' = Exit(goroutines, g)
       \/ /\ WaitForBlockConfirmations(g.blk, blockConfirmations)
          /\ IF ConfirmedTerminated(keepActive)
             THEN /\ goroutines' = Step(goroutines, g,
                         [g EXCEPT !.pc = "recover",
                                   !.conf = IF keepActive THEN NoBlock
                                            ELSE block])
                  /\ UNCHANGED dedup
             ELSE /\ dedup' = NotifyCompleted("Terminating", NoDigest)
                  /\ goroutines' = Exit(goroutines, g)
    /\ UNCHANGED <<chainVars, storeVars, subs, crashed, histVars,
                   broadcastVars, extVars>>

\* The steps of the liquidation recovery, each of which returns on failure.
RecoverySteps ==
    {"announce", "broadcast", "derive", "signer", "scriptCode", "owner",
     "fundingInfo", "utxoValue", "construct", "sighash", "sign", "assemble"}

\* The steps that can fail in the current state: keepsRegistry.GetSigner
\* fails exactly when the keep is not registered, the others at any time.
CanFail == IF HasSigner THEN RecoverySteps \ {"signer"} ELSE RecoverySteps

\* The liquidation recovery; failed is the step that failed, "none" if the
\* signed transaction was logged.  A failed step returns from the handler.
TerminatedRecover(g) ==
    /\ g.fn = "terminatedEvent" /\ g.pc = "recover"
    /\ \E failed \in CanFail \cup (IF HasSigner THEN {"none"} ELSE {}) :
          IF failed = "none"
          THEN /\ goroutines' = Step(goroutines, g,
                      [g EXCEPT !.pc = "unregister"])
               /\ UNCHANGED dedup
          ELSE /\ dedup' = NotifyCompleted("Terminating", NoDigest)
               /\ goroutines' = Exit(goroutines, g)
    /\ UNCHANGED <<chainVars, storeVars, subs, crashed, histVars,
                   broadcastVars, extVars>>

\* keepsRegistry.UnregisterKeep(keep.ID())
TerminatedUnregister(g) ==
    /\ g.fn = "terminatedEvent" /\ g.pc = "unregister"
    /\ registry' = UnregisterKeep
    /\ goroutines' = Step(goroutines, g, [g EXCEPT !.pc = "send"])
    /\ UNCHANGED <<chainVars, snapshot, nodeSubmitted, dedup, subs, crashed,
                   histVars, broadcastVars, extVars>>

\* keepTerminated <- event meets <-keepTerminated.
TerminatedHandOver(g, m) ==
    /\ g.fn = "terminatedEvent" /\ g.pc = "send"
    /\ m.fn = "monitorTerminated" /\ m.pc = "wait"
    /\ dedup' = NotifyCompleted("Terminating", NoDigest)
    /\ goroutines' = Step(Exit(goroutines, g), m, [m EXCEPT !.pc = "unsub"])
    /\ UNCHANGED <<chainVars, storeVars, subs, crashed, histVars,
                   broadcastVars, extVars>>

\* defer subscriptionOnSignatureRequested.Unsubscribe()
\* defer subscriptionOnKeepTerminated.Unsubscribe()
MonitorTerminatedUnsubscribe(m) ==
    /\ m.fn = "monitorTerminated" /\ m.pc = "unsub"
    /\ subs' = [subs EXCEPT !.sig = "off", !.terminated = "off"]
    /\ goroutines' = Exit(goroutines, m)
    /\ UNCHANGED <<chainVars, storeVars, dedup, crashed, histVars,
                   broadcastVars, extVars>>

----------------------------------------------------------------------------
\* monitorSigningRequests, called by generateKeyForKeep and by the startup
\* goroutine of Initialize.

\* go checkAwaitingSignature(...)
MonitorSigningSpawnCheck(g) ==
    /\ g.pc = "monitorSigning"
    /\ goroutines' = Spawn(Step(goroutines, g, [g EXCEPT !.pc = "subscribe"]),
           G("checkSig", "latest", NoDigest, 0, "none", NoBlock, FALSE))
    /\ UNCHANGED <<chainVars, storeVars, dedup, subs, crashed, histVars,
                   broadcastVars, extVars>>

\* A caller that starts the monitors whatever monitorSigningRequests
\* returned.
ProceedToMonitorsAnyway(err) == TRUE

\* `if err != nil { ...; return }` after monitorSigningRequests: the caller
\* goes on to the monitors only without an error.
ProceedToMonitors(err) == err = "nil"

\* keep.OnSignatureRequested, then the caller starts the two monitors and
\* returns (releasing the key-generation key when it holds it).
MonitorSigningSubscribe(g) ==
    /\ g.fn \in {"startup", "createdEvent", "scanKeyGen"}
    /\ g.pc = "subscribe"
    /\ dedup' = IF g.key = "KeyGen" THEN NotifyCompleted("KeyGen", NoDigest)
                ELSE dedup
    /\ \E err \in {"nil", "failed"} :
          /\ subs' = IF err = "nil" THEN [subs EXCEPT !.sig = "on"] ELSE subs
          /\ goroutines' =
                IF ProceedToMonitors(err)
                THEN Spawn(Spawn(Exit(goroutines, g),
                         G("monitorClosed", "subscribe", NoDigest, 0, "none",
                           NoBlock, FALSE)),
                         G("monitorTerminated", "subscribe", NoDigest, 0,
                           "none", NoBlock, FALSE))
                ELSE Exit(goroutines, g)
    /\ UNCHANGED <<chainVars, storeVars, crashed, histVars, broadcastVars, extVars>>

----------------------------------------------------------------------------
\* A panic in a goroutine ends the process.
Crash ==
    /\ crashed' = TRUE
    /\ goroutines' = EmptyBag
    /\ subs' = [k \in DOMAIN subs |-> "dead"]
    /\ dedup' = {}

\* The deferred Notify*Completed of the goroutine, if it holds a key.
Release(g) == IF g.key = "none" THEN dedup ELSE NotifyCompleted(g.key, g.d)

----------------------------------------------------------------------------
\* Initialize: the goroutine started for a keep loaded from the registry.

\* hostChain.GetKeepWithID and keep.IsActive; when the keep reads as
\* inactive, confirmIsInactive reads the current block.
StartupCheckActive(g) ==
    /\ g.fn = "startup" /\ g.pc = "lookup"
    /\ block <= MaxEventBlock
    /\ UNCHANGED <<broadcastVars, extVars>>
    /\ \/ /\ Crash                   \* lookup failed, keep.ID() on no handle
          /\ UNCHANGED <<chainVars, storeVars, histVars>>
       \/ /\ \/ goroutines' = Exit(goroutines, g)   \* a read failed
             \/ IF keepActive
                THEN goroutines' = Step(goroutines, g,
                         [g EXCEPT !.pc = "getSigner"])
                ELSE \/ goroutines' = Step(goroutines, g,
                            [g EXCEPT !.pc = "confirm", !.blk = block])
                     \/ \* CurrentBlock failed: not confirmed
                        goroutines' = Step(goroutines, g,
                            [g EXCEPT !.pc = "getSigner"])
          /\ UNCHANGED <<chainVars, storeVars, dedup, subs, crashed,
                         histVars>>

\* A confirmIsInactive that trusts the first read of keep.IsActive.
AssumeInactive(isKeepActive) == TRUE

\* confirmIsInactive returns !isKeepActive.
ConfirmIsInactive(isKeepActive) == ~isKeepActive

StartupConfirm(g) ==
    /\ g.fn = "startup" /\ g.pc = "confirm"
    /\ \/ goroutines' = Step(goroutines, g, [g EXCEPT !.pc = "getSigner"])
       \/ /\ WaitForBlockConfirmations(g.blk, blockConfirmations)
          /\ IF ConfirmIsInactive(keepActive)
             THEN goroutines' = Step(goroutines, g,
                      [g EXCEPT !.pc = "unregister",
                                !.conf = IF keepActive THEN NoBlock
                                         ELSE block])
             ELSE goroutines' = Step(goroutines, g,
                      [g EXCEPT !.pc = "getSigner"])
    /\ UNCHANGED <<chainVars, storeVars, dedup, subs, crashed, histVars,
                   broadcastVars, extVars>>

\* keepsRegistry.UnregisterKeep(keepAddress); return
StartupUnregister(g) ==
    /\ g.fn = "startup" /\ g.pc = "unregister"
    /\ registry' = UnregisterKeep
    /\ goroutines' = Exit(goroutines, g)
    /\ UNCHANGED <<chainVars, snapshot, nodeSubmitted, dedup, subs, crashed,
                   histVars, broadcastVars, extVars>>

\* keepsRegistry.GetSigner(keepAddress)
StartupGetSigner(g) ==
    /\ g.fn = "startup" /\ g.pc = "getSigner"
    /\ IF HasSigner
       THEN goroutines' = Step(goroutines, g,
                [g EXCEPT !.pc = "monitorSigning"])
       ELSE goroutines' = Exit(goroutines, g)
    /\ UNCHANGED <<chainVars, storeVars, dedup, subs, crashed, histVars,
                   broadcastVars, extVars>>

----------------------------------------------------------------------------
\* Key generation.

\* The factory creates the keep.
CreateKeep ==
    /\ EventsOf("created") = {}
    /\ block <= MaxEventBlock
    /\ events' = events \cup
           {[kind |-> "created", d |-> NoDigest, blk |-> block]}
    /\ UNCHANGED <<block, keepActive, chainPubKey, awaiting, latestDigest,
                   requestedBlock, group, nodeVars, broadcastVars, extVars>>

\* All members submitted the same public key.
PublicKeyPublished ==
    /\ nodeSubmitted /\ ~chainPubKey
    /\ chainPubKey' = TRUE
    /\ UNCHANGED <<block, keepActive, awaiting, latestDigest, requestedBlock,
                   events, group, nodeVars, broadcastVars, extVars>>

\* event.IsMember(hostChain.Address()) for the keep's member list.
AnyoneIsMember(grp) == TRUE

IsMember(grp) == grp.member

\* The handler of OnBondedECDSAKeepCreated: `if event.IsMember(...)`.
DeliverKeepCreated(e) ==
    /\ subs.created = "on"
    /\ e \in EventsOf("created")
    /\ Alive("createdEvent") < MaxHandlers
    /\ IF IsMember(group)
       THEN goroutines' = Spawn(goroutines,
                G("createdEvent", "start", NoDigest, e.blk, "none", NoBlock,
                  FALSE))
       ELSE UNCHANGED goroutines
    /\ UNCHANGED <<chainVars, storeVars, dedup, subs, crashed, histVars,
                   broadcastVars, extVars>>

\* `if shouldHandle := NotifyKeyGenStarted(...); !shouldHandle { return }`
ProceedKeyGen(shouldHandle) == shouldHandle

\* NotifyKeyGenStarted and hostChain.GetKeepWithID; an error of the lookup
\* is logged with keep.ID() and the handler goes on.
CreatedStart(g) ==
    /\ g.fn = "createdEvent" /\ g.pc = "start"
    /\ IF ProceedKeyGen(NotifyStarted("KeyGen", NoDigest))
       THEN \/ /\ dedup' = dedup \cup {Key("KeyGen", NoDigest)}
               /\ goroutines' = Step(goroutines, g,
                      [g EXCEPT !.pc = "generate", !.key = "KeyGen"])
               /\ UNCHANGED <<subs, crashed>>
            \/ Crash                 \* lookup failed, keep.ID() on no handle
       ELSE /\ goroutines' = Exit(goroutines, g)
            /\ UNCHANGED <<dedup, subs, crashed>>
    /\ UNCHANGED <<chainVars, storeVars, histVars, broadcastVars, extVars>>

\* A generateKeyForKeep without the checks of the group.
AnyGroupSupported(size, threshold) == TRUE

\* generateKeyForKeep accepts groups of at least 2 members whose honest
\* threshold equals the group size.
GroupSupported(size, threshold) == size >= 2 /\ threshold = size

\* generateKeyForKeep up to the call of generateSignerForKeep.
GenerateKeyForKeep(g) ==
    /\ g.fn \in {"createdEvent", "scanKeyGen"} /\ g.pc = "generate"
    /\ IF GroupSupported(group.size, group.threshold)
       THEN /\ keyGenCalls < MaxKeyGenCalls
            /\ keyGenCalls' = keyGenCalls + 1
            /\ goroutines' = Step(goroutines, g, [g EXCEPT !.pc = "tss"])
            /\ UNCHANGED dedup
       ELSE /\ dedup' = Release(g)
            /\ goroutines' = Exit(goroutines, g)
            /\ UNCHANGED keyGenCalls
    /\ UNCHANGED <<chainVars, storeVars, subs, crashed, signCalls,
                   broadcastVars, extVars>>

\* A handler that goes on to RegisterSigner whatever generateSignerForKeep
\* returned.
RegisterDespiteError(err) == "register"

\* `signer, err := generateSignerForKeep(...); if err != nil { return }`
AfterGenerateSigner(err) == IF err THEN "return" ELSE "register"

\* generateSignerForKeep returned an error to generateKeyForKeep.
GenerateSignerFailed(g) ==
    IF AfterGenerateSigner(TRUE) = "return"
    THEN /\ dedup' = Release(g)
         /\ goroutines' = Exit(goroutines, g)
    ELSE /\ goroutines' = Step(goroutines, g, [g EXCEPT !.pc = "register"])
         /\ UNCHANGED dedup

\* A node that yields the signer without writing it to storage.
GenerateSignerUnpersisted(g) ==
    /\ g.fn \in {"createdEvent", "scanKeyGen"} /\ g.pc = "tss"
    /\ \/ /\ dedup' = Release(g)
          /\ goroutines' = Exit(goroutines, g)
       \/ /\ goroutines' = Step(goroutines, g, [g EXCEPT !.pc = "publish"])
          /\ UNCHANGED dedup
    /\ UNCHANGED <<chainVars, storeVars, subs, crashed, histVars,
                   broadcastVars, extVars>>

\* tssNode.GenerateSignerForKeep under keyGenerationTimeout: the protocol
\* fails or times out, or it yields a signer that is written to storage.
GenerateSigner(g) ==
    /\ g.fn \in {"createdEvent", "scanKeyGen"} /\ g.pc = "tss"
    /\ \/ /\ GenerateSignerFailed(g)
          /\ UNCHANGED snapshot
       \/ /\ snapshot' = TRUE
          /\ goroutines' = Step(goroutines, g, [g EXCEPT !.pc = "publish"])
          /\ UNCHANGED dedup
    /\ UNCHANGED <<chainVars, registry, nodeSubmitted, subs, crashed,
                   histVars, broadcastVars, extVars>>

\* tssNode.GenerateSignerForKeep: the public key is submitted to the keep;
\* the chain rejects a second submission of the same member.
PublishPublicKey(g) ==
    /\ g.fn \in {"createdEvent", "scanKeyGen"} /\ g.pc = "publish"
    /\ \/ /\ GenerateSignerFailed(g)
          /\ UNCHANGED nodeSubmitted
       \/ /\ ~nodeSubmitted
          /\ nodeSubmitted' = TRUE
          /\ goroutines' = Step(goroutines, g, [g EXCEPT !.pc = "register"])
          /\ UNCHANGED dedup
    /\ UNCHANGED <<chainVars, registry, snapshot, subs, crashed, histVars,
                   broadcastVars, extVars>>

\* keepsRegistry.RegisterSigner: fails when the keep is already registered
\* or when the signer cannot be saved.
RegisterSigner(g) ==
    /\ g.fn \in {"createdEvent", "scanKeyGen"} /\ g.pc = "register"
    /\ \/ /\ dedup' = Release(g)
          /\ goroutines' = Exit(goroutines, g)
          /\ UNCHANGED registry
       \/ /\ ~HasSigner
          /\ registry' = "registered"
          /\ goroutines' = Step(goroutines, g,
                 [g EXCEPT !.pc = "monitorSigning"])
          /\ UNCHANGED dedup
    /\ UNCHANGED <<chainVars, snapshot, nodeSubmitted, subs, crashed,
                   histVars, broadcastVars, extVars>>

\* checkAwaitingKeyGenerationForKeep: key generation is started when the
\* on-chain public key is empty, no signer is stored and the operator is a
\* member.
ScanIgnoresSigner(pubKeyEmpty, hasSigner, isMember) ==
    pubKeyEmpty /\ isMember

ScanStartsKeyGen(pubKeyEmpty, hasSigner, isMember) ==
    pubKeyEmpty /\ ~hasSigner /\ isMember

\* checkAwaitingKeyGeneration over the keep.
ScanKeeps(g) ==
    /\ g.fn = "scan" /\ g.pc = "scan"
    /\ \/ \* no keep, a failed read, or a keep older than the lookback
          goroutines' = Exit(goroutines, g)
       \/ /\ EventsOf("created") # {}
          /\ IF ScanStartsKeyGen(~chainPubKey, HasSigner, group.member)
             THEN goroutines' = Spawn(Exit(goroutines, g),
                      G("scanKeyGen", "generate", NoDigest, 0, "none",
                        NoBlock, FALSE))
             ELSE goroutines' = Exit(goroutines, g)
    /\ UNCHANGED <<chainVars, storeVars, dedup, subs, crashed, histVars,
                   broadcastVars, extVars>>

----------------------------------------------------------------------------
\* tss.BroadcastRecoveryAddress

\* group.memberID and group.groupMemberIDs of the invocation, and a sender
\* of announcements that is no member of the group.
Self == "m1"
GroupMemberIDs == {"m1", "m2"}
Outsider == "x"
Senders == GroupMemberIDs \cup {Outsider}

\* Bitcoin addresses, in the order of sort.Strings.  "bc1x" decodes but
\* belongs to another network, "junk" does not decode.
Addresses == <<"bc1x", "junk", "tb1a", "tb1b", "tb1c">>

\* maxFeePerVByte values announced by the senders.
Fees == {1, 2, 3}

NoInfo == [btcRecoveryAddress |-> "none", maxFeePerVByte |-> 0]
NoResult == [addresses |-> <<>>, maxFeePerVByte |-> 0, err |-> "none",
             named |-> <<>>]

\* int32(2147483647), the start of the minimum over the announced fees.
MaxInt32 == 2147483647

\* A validation that only decodes the address.
DecodedOnly(btcAddress) == btcAddress # "junk"

\* ValidateReceivedBtcAddress: btcutil.DecodeAddress succeeds and the
\* address IsForNet(chainParams).
ValidateReceivedBtcAddress(btcAddress) ==
    btcAddress \in {"tb1a", "tb1b", "tb1c"}

\* The keys of the map: the members with a recorded announcement.
Recorded(info) == {m \in DOMAIN info : info[m] # NoInfo}

\* The largest of the recorded fees.
LargestFee(info) ==
    LET fees == {info[m].maxFeePerVByte : m \in Recorded(info)} \cup {0}
    IN  CHOOSE f \in fees : \A h \in fees : f >= h

\* The minimum of the recorded fees, starting from MaxInt32.
MinFee(info) ==
    LET fees == {info[m].maxFeePerVByte : m \in Recorded(info)} \cup {MaxInt32}
    IN  CHOOSE f \in fees : \A h \in fees : f <= h

\* The recorded addresses in the order of the member list, not sorted.
UnsortedFrom(i, info) ==
    (IF "m1" \in Recorded(info)
     THEN <<info["m1"].btcRecoveryAddress>> ELSE <<>>)
    \o (IF "m2" \in Recorded(info)
        THEN <<info["m2"].btcRecoveryAddress>> ELSE <<>>)

\* sort.Strings over the recorded addresses (with repetitions).
RECURSIVE SortedFrom(_, _)
SortedFrom(i, info) ==
    IF i > Len(Addresses) THEN <<>>
    ELSE LET n == Cardinality({m \in Recorded(info) :
                     info[m].btcRecoveryAddress = Addresses[i]})
         IN  [k \in 1..n |-> Addresses[i]] \o SortedFrom(i + 1, info)

\* The switch on ctx.Err() after <-ctx.Done().  The validation error names
\* the address and the map key of the entry that failed; named is empty in
\* every other result.
BroadcastResult(ctxErr, info) ==
    LET invalid == {m \in Recorded(info) :
                       ~ValidateReceivedBtcAddress(info[m].btcRecoveryAddress)}
        failed(err, named) ==
            [addresses |-> <<>>, maxFeePerVByte |-> 0, err |-> err,
             named |-> named]
    IN  IF ctxErr = "DeadlineExceeded" THEN failed("timedOut", <<>>)
        ELSE IF ctxErr = "Canceled"
        THEN IF invalid # {}
             THEN LET m == CHOOSE x \in invalid : TRUE
                  IN  failed("invalid", <<info[m].btcRecoveryAddress, m>>)
             ELSE [addresses |-> SortedFrom(1, info),
                   maxFeePerVByte |-> MinFee(info), err |-> "nil",
                   named |-> <<>>]
        ELSE failed("unexpected", <<>>)

\* cancel(): the first cause of the context's end stays.
Cancel(ctxErr) == IF ctxErr = "nil" THEN "Canceled" ELSE ctxErr

\* `if len(memberRecoveryInfo) == len(group.groupMemberIDs) { cancel() }`
AllGathered(info) ==
    Cardinality(Recorded(info)) = Cardinality(GroupMemberIDs)

\* The parent context ends: cancelled by the caller, or its deadline.
ParentDone(err) ==
    /\ bpc.main = "wait"
    /\ parentCtx = "nil"
    /\ parentCtx' = err
    /\ ctx' = IF ctx = "nil" THEN err ELSE ctx
    /\ UNCHANGED <<input, msgInChan, memberRecoveryInfo, bpc, result,
                   clientVars, extVars>>

\* A context made with context.WithCancel: no deadline ever arrives.
WithCancelOnly ==
    /\ FALSE
    /\ UNCHANGED vars

\* protocolReadyTimeout elapses.
ProtocolReadyTimeout ==
    /\ bpc.main = "wait"
    /\ ctx = "nil"
    /\ ctx' = "DeadlineExceeded"
    /\ UNCHANGED <<input, parentCtx, msgInChan, memberRecoveryInfo, bpc,
                   result, clientVars, extVars>>

\* handleLiquidationRecoveryAnnounceMessage: the broadcast channel hands an
\* announcement of sender s to the handler, which puts it into msgInChan.
\* The member's own announcement is on the channel once it was sent.
HandleAnnounce(s) ==
    /\ ctx = "nil"
    /\ s = Self => bpc.sent
    /\ Len(msgInChan) < Cardinality(GroupMemberIDs)
    /\ msgInChan' = Append(msgInChan,
           [SenderID |-> s,
            BtcRecoveryAddress |-> input.announce[s].btcRecoveryAddress,
            MaxFeePerVByte |-> input.announce[s].maxFeePerVByte])
    /\ UNCHANGED <<input, parentCtx, ctx, memberRecoveryInfo, bpc, result,
                   clientVars, extVars>>

\* A receiver that records the announcement of any sender.
AnySender(s) == TRUE

\* `for _, memberID := range group.groupMemberIDs` with
\* `if msg.SenderID.Equal(memberID)`: the sender is a member of the group.
IsGroupMember(s) == s \in GroupMemberIDs

\* The receiving goroutine takes `case msg := <-msgInChan`.
ReceiveMessage ==
    /\ bpc.recv = "select"
    /\ msgInChan # <<>>
    /\ LET msg == Head(msgInChan)
           info == IF /\ IsGroupMember(msg.SenderID)
                      /\ msg.SenderID \notin input.unconvertible
                   THEN [memberRecoveryInfo EXCEPT ![msg.SenderID] =
                            [btcRecoveryAddress |-> msg.BtcRecoveryAddress,
                             maxFeePerVByte |-> msg.MaxFeePerVByte]]
                   ELSE memberRecoveryInfo
       IN  /\ memberRecoveryInfo' = info
           /\ ctx' = IF AllGathered(info) THEN Cancel(ctx) ELSE ctx
    /\ msgInChan' = Tail(msgInChan)
    /\ UNCHANGED <<input, parentCtx, bpc, result, clientVars, extVars>>

\* The receiving goroutine takes `case <-ctx.Done(): return`.
ReceiveDone ==
    /\ bpc.recv = "select"
    /\ ctx # "nil"
    /\ bpc' = [bpc EXCEPT !.recv = "done"]
    /\ UNCHANGED <<input, parentCtx, ctx, msgInChan, memberRecoveryInfo,
                   result, clientVars, extVars>>

\* The sending goroutine: sendMessage(), which may fail.
SendMessage ==
    /\ bpc.send = "first"
    /\ \E ok \in BOOLEAN :
          bpc' = [bpc EXCEPT !.send = "wait", !.sent = ok /\ ctx = "nil"]
    /\ UNCHANGED <<input, parentCtx, ctx, msgInChan, memberRecoveryInfo,
                   result, clientVars, extVars>>

\* A second sendMessage() that does not wait for the end of the context.
SendAgainAtOnce ==
    /\ bpc.send = "wait"
    /\ bpc' = [bpc EXCEPT !.send = "done"]
    /\ UNCHANGED <<input, parentCtx, ctx, msgInChan, memberRecoveryInfo,
                   result, clientVars, extVars>>

\* The sending goroutine: <-ctx.Done(), sendMessage() under the ended
\* context, return.
SendAgain ==
    /\ bpc.send = "wait"
    /\ ctx # "nil"
    /\ bpc' = [bpc EXCEPT !.send = "done"]
    /\ UNCHANGED <<input, parentCtx, ctx, msgInChan, memberRecoveryInfo,
                   result, clientVars, extVars>>

\* The caller: <-ctx.Done(), the switch on ctx.Err(), return.
BroadcastReturn ==
    /\ bpc.main = "wait"
    /\ ctx # "nil"
    /\ result' = BroadcastResult(ctx, memberRecoveryInfo)
    /\ bpc' = [bpc EXCEPT !.main = "returned"]
    /\ UNCHANGED <<input, parentCtx, ctx, msgInChan, memberRecoveryInfo,
                   clientVars, extVars>>

\* The state when BroadcastRecoveryAddress has started its two goroutines.
\* The member announces "tb1b" with fee 2.
InitBroadcast ==
    /\ input \in
          [announce : {[s \in Senders |->
                          IF s = Self
                          THEN [btcRecoveryAddress |-> "tb1b",
                                maxFeePerVByte |-> 2]
                          ELSE [btcRecoveryAddress |-> a,
                                maxFeePerVByte |-> f]] :
                       a \in {"tb1a", "tb1c", "bc1x", "junk"},
                       f \in Fees \ {2}},
           unconvertible : {{}, {"m2"}}]
    /\ parentCtx = "nil"
    /\ ctx = "nil"
    /\ msgInChan = <<>>
    /\ memberRecoveryInfo = [m \in Senders |-> NoInfo]
    /\ bpc = [main |-> "wait", recv |-> "select", send |-> "first",
              sent |-> FALSE]
    /\ result = NoResult

\* No invocation of BroadcastRecoveryAddress is followed.
BroadcastIdle ==
    /\ input = [announce |-> [s \in Senders |->
                                 [btcRecoveryAddress |-> "tb1b",
                                  maxFeePerVByte |-> 2]],
                unconvertible |-> {}]
    /\ parentCtx = "nil"
    /\ ctx = "nil"
    /\ msgInChan = <<>>
    /\ memberRecoveryInfo = [m \in Senders |-> NoInfo]
    /\ bpc = [main |-> "returned", recv |-> "done", send |-> "done",
              sent |-> FALSE]
    /\ result = NoResult

----------------------------------------------------------------------------
\* checkAwaitingKeyGeneration over the keeps of the factory (client.go
\* 322-406).  The factory appends keeps, so the opened timestamps do not
\* decrease with the index.

\* Number of keeps of the factory and the last instant of time.Now().
MaxKeeps == 3
MaxTime == 3

\* clientConfig.GetAwaitingKeyGenerationLookback()
lookbackPeriod == 1

NoIndex == 0 - 1

\* The keep at a factory index (the indexes start at 0).
KeepAt(i) == factory[i + 1]

\* keepOpenedTimestamp.Add(lookbackPeriod).Before(time.Now())
NeverBeforeLookback(opened, t) == FALSE

OpenedBeforeLookback(opened, t) == opened + lookbackPeriod < t

\* time.Now() advances.
Tick ==
    /\ now < MaxTime
    /\ now' = now + 1
    /\ UNCHANGED <<factory, scan, scanLog, notScanVars>>

\* The factory opens a keep; it gets the next index.
OpenKeep ==
    /\ Len(factory) < MaxKeeps
    /\ \E e \in BOOLEAN, m \in BOOLEAN :
          factory' = Append(factory, [opened |-> now, pubKeyEmpty |-> e,
                                      hasSigner |-> FALSE, isMember |-> m])
    /\ UNCHANGED <<now, scan, scanLog, notScanVars>>

\* hostChain.GetKeepCount() and the loop's initial keepIndex.
ScanGetKeepCount ==
    /\ scan.pc = "count"
    /\ \/ scan' = [pc |-> "done", keepIndex |-> NoIndex]
       \/ scan' = [pc |-> IF Len(factory) = 0 THEN "done" ELSE "loop",
                   keepIndex |-> Len(factory) - 1]
    /\ UNCHANGED <<now, factory, scanLog, notScanVars>>

\* The loop's post statement and condition.
ScanContinue == 
    [pc |-> IF scan.keepIndex - 1 >= 0 THEN "loop" ELSE "done",
     keepIndex |-> scan.keepIndex - 1]

\* One iteration that does not reach the check of the keep: a read fails,
\* or the keep was opened before the lookback period.
ScanSkipOrStop ==
    /\ scan.pc = "loop"
    /\ LET i == scan.keepIndex IN
       \/ \* GetKeepAtIndex fails
          /\ scan' = ScanContinue
          /\ UNCHANGED scanLog
       \/ \* GetOpenedTimestamp fails
          /\ scan' = ScanContinue
          /\ scanLog' = [scanLog EXCEPT !.visited = @ \cup {i}]
       \/ /\ OpenedBeforeLookback(KeepAt(i).opened, now)
          /\ scan' = [scan EXCEPT !.pc = "done"]
          /\ scanLog' = [scanLog EXCEPT !.visited = @ \cup {i},
                                        !.stoppedAt = i]
    /\ UNCHANGED <<now, factory, notScanVars>>

\* One iteration that calls checkAwaitingKeyGenerationForKeep.
ScanCheckKeep ==
    /\ scan.pc = "loop"
    /\ LET i == scan.keepIndex
           k == KeepAt(i)
       IN  /\ ~OpenedBeforeLookback(k.opened, now)
           /\ scan' = ScanContinue
           /\ \/ \* GetPublicKey, GetMembers or GetHonestThreshold fails
                 scanLog' = [scanLog EXCEPT !.visited = @ \cup {i},
                                            !.examined = @ \cup {i}]
              \/ scanLog' = [scanLog EXCEPT
                     !.visited = @ \cup {i},
                     !.examined = @ \cup {i},
                     !.started = IF ScanStartsKeyGen(k.pubKeyEmpty,
                                         k.hasSigner, k.isMember)
                                  THEN @ \cup {i} ELSE @]
    /\ UNCHANGED <<now, factory, notScanVars>>

\* Non-decreasing opened timestamps.
Ordered(f) == \A i \in 1..Len(f) - 1 : f[i].opened <= f[i + 1].opened

Factories ==
    UNION {{f \in [1..n -> [opened : 0..MaxTime - 1, pubKeyEmpty : BOOLEAN,
                            hasSigner : BOOLEAN, isMember : BOOLEAN]] :
               Ordered(f)} : n \in 0..MaxKeeps}

\* The state when Initialize starts checkAwaitingKeyGeneration.
InitScan ==
    /\ now \in 1..MaxTime
    /\ factory \in {f \in Factories : \A i \in 1..Len(f) : f[i].opened <= now}
    /\ scan = [pc |-> "count", keepIndex |-> NoIndex]
    /\ scanLog = [visited |-> {}, examined |-> {}, started |-> {},
                  stoppedAt |-> NoIndex]

\* checkAwaitingKeyGeneration is not followed.
ScanIdle ==
    /\ now = 0
    /\ factory = <<>>
    /\ scan = [pc |-> "done", keepIndex |-> NoIndex]
    /\ scanLog = [visited |-> {}, examined |-> {}, started |-> {},
                  stoppedAt |-> NoIndex]

----------------------------------------------------------------------------
\* Transaction submission of the ethereum Chain (Connect).  What a contract
\* binding does with the mutex and the nonce manager it is given follows the
\* comment of Chain.transactionMutex: lock, ask for the next pending nonce,
\* submit, unlock.

\* The contract bindings that submit transactions for the account, and the
\* number of transactions that are followed.
Contracts == {"factory", "keep", "tbtc"}
MaxTx == 3

NoNonce == 0 - 1

\* The mutex a binding locks: Connect creates one and hands it to the
\* factory binding and to the Chain, which hands it on.
OwnMutex(c) == c

TransactionMutex(c) == "transactionMutex"

InFlight == {c \in Contracts : txs[c].pc # "idle"}

\* transactionMutex.Lock()
TxLock(c) ==
    /\ txs[c].pc = "idle"
    /\ Len(submitted) + Cardinality(InFlight) < MaxTx
    /\ TransactionMutex(c) \notin locks
    /\ locks' = locks \cup {TransactionMutex(c)}
    /\ txs' = [txs EXCEPT ![c].pc = "locked"]
    /\ UNCHANGED <<nextNonce, submitted, notTxVars>>

\* nonceManager.CurrentNonce()
TxNonce(c) ==
    /\ txs[c].pc = "locked"
    /\ txs' = [txs EXCEPT ![c] = [pc |-> "nonce", nonce |-> nextNonce]]
    /\ UNCHANGED <<locks, nextNonce, submitted, notTxVars>>

\* The transaction is submitted, or the submission fails; the deferred
\* transactionMutex.Unlock().
TxSubmit(c) ==
    /\ txs[c].pc = "nonce"
    /\ \/ /\ submitted' = Append(submitted,
                              [by |-> c, nonce |-> txs[c].nonce])
          /\ nextNonce' = IF txs[c].nonce >= nextNonce
                          THEN txs[c].nonce + 1 ELSE nextNonce
       \/ UNCHANGED <<submitted, nextNonce>>
    /\ locks' = locks \ {TransactionMutex(c)}
    /\ txs' = [txs EXCEPT ![c] = [pc |-> "idle", nonce |-> NoNonce]]
    /\ UNCHANGED <<notTxVars>>

\* The state when Connect returns.
InitTx ==
    /\ locks = {}
    /\ txs = [c \in Contracts |-> [pc |-> "idle", nonce |-> NoNonce]]
    /\ nextNonce \in 0..1
    /\ submitted = <<>>

\* No transaction is followed.
TxIdle ==
    /\ locks = {}
    /\ txs = [c \in Contracts |-> [pc |-> "idle", nonce |-> NoNonce]]
    /\ nextNonce = 0
    /\ submitted = <<>>

----------------------------------------------------------------------------
\* A chain handle with its subscriptions: OnBondedECDSAKeepCreated,
\* OnSignatureRequested, SubmitKeepPublicKey.

KeepAddresses == {"k1", "k2"}
PublicKeys == {"pk1", "pk2"}
NoPublicKey == "empty"
NoKeep == "factory"

\* Subscriptions made, events emitted and SubmitKeepPublicKey calls followed.
MaxSubs == 2
MaxEmitted == 3
MaxSubmits == 3

\* The event handed to the handler of OnBondedECDSAKeepCreated by onEvent.
\* HonestThreshold.Uint64() is the value itself below 2^64.
OwnerAsKeepAddress(KeepAddress, Members, Owner, Application, HonestThreshold, blockNumber) ==
    [KeepAddress |-> Owner, Members |-> Members,
     HonestThreshold |-> HonestThreshold, BlockNumber |-> blockNumber]

BondedECDSAKeepCreatedEvent(KeepAddress, Members, Owner, Application, HonestThreshold, blockNumber) ==
    [KeepAddress |-> KeepAddress, Members |-> Members,
     HonestThreshold |-> HonestThreshold, BlockNumber |-> blockNumber]

\* The event handed to the handler of OnSignatureRequested.
SignatureRequestedEvent(digest) == [Digest |-> digest]

\* OnBondedECDSAKeepCreated(handler)
SubscribeCreated ==
    /\ nextSub < MaxSubs
    /\ nextSub' = nextSub + 1
    /\ handlers' = handlers \cup
           {[id |-> nextSub + 1, kind |-> "created", keep |-> NoKeep]}
    /\ UNCHANGED <<keeps, emitted, calls, lastSubmit, notChainSubVars>>

\* OnSignatureRequested(keepAddress, handler); an error for no such keep.
SubscribeSignatureRequested(a) ==
    /\ nextSub < MaxSubs
    /\ keeps[a].created
    /\ nextSub' = nextSub + 1
    /\ handlers' = handlers \cup
           {[id |-> nextSub + 1, kind |-> "sig", keep |-> a]}
    /\ UNCHANGED <<keeps, emitted, calls, lastSubmit, notChainSubVars>>

\* subscription.Unsubscribe()
Unsubscribe(h) ==
    /\ h \in handlers
    /\ handlers' = handlers \ {h}
    /\ UNCHANGED <<keeps, nextSub, emitted, calls, lastSubmit, notChainSubVars>>

\* A keep is created: every installed handler of the creation is invoked.
KeepCreated(a) ==
    /\ Len(emitted) < MaxEmitted
    /\ ~keeps[a].created
    /\ keeps' = [keeps EXCEPT ![a].created = TRUE]
    /\ emitted' = Append(emitted,
                         [kind |-> "created", keep |-> a, digest |-> NoDigest])
    /\ calls' = calls \cup
           {[sub |-> h.id, at |-> Len(emitted) + 1,
             event |-> BondedECDSAKeepCreatedEvent(a, <<"op", "m2">>,
                           "owner", "app", 2, Len(emitted))] :
              h \in {x \in handlers : x.kind = "created"}}
    /\ UNCHANGED <<handlers, nextSub, lastSubmit, notChainSubVars>>

\* A signature is requested from a keep: every handler installed for the
\* keep is invoked.
SignatureRequested(a, d) ==
    /\ Len(emitted) < MaxEmitted
    /\ keeps[a].created
    /\ emitted' = Append(emitted, [kind |-> "sig", keep |-> a, digest |-> d])
    /\ calls' = calls \cup
           {[sub |-> h.id, at |-> Len(emitted) + 1,
             event |-> SignatureRequestedEvent(d)] :
              h \in {x \in handlers : x.kind = "sig" /\ x.keep = a}}
    /\ UNCHANGED <<keeps, handlers, nextSub, lastSubmit, notChainSubVars>>

\* The check of SubmitKeepPublicKey for a key submitted before.
NeverSubmitted(publicKey) == FALSE

AlreadySubmitted(publicKey) == publicKey # NoPublicKey

\* SubmitKeepPublicKey(keepAddress, publicKey)
SubmitKeepPublicKey(a, k) ==
    /\ lastSubmit.n < MaxSubmits
    /\ IF ~keeps[a].created
       THEN /\ lastSubmit' = [n |-> lastSubmit.n + 1, keep |-> a, key |-> k,
                              err |-> "no keep"]
            /\ UNCHANGED keeps
       ELSE IF AlreadySubmitted(keeps[a].publicKey)
       THEN /\ lastSubmit' = [n |-> lastSubmit.n + 1, keep |-> a, key |-> k,
                              err |-> "public key already submitted for keep"]
            /\ UNCHANGED keeps
       ELSE /\ lastSubmit' = [n |-> lastSubmit.n + 1, keep |-> a, key |-> k,
                              err |-> "nil"]
            /\ keeps' = [keeps EXCEPT ![a].publicKey = k]
    /\ UNCHANGED <<handlers, nextSub, emitted, calls, notChainSubVars>>

\* The state when the chain handle is connected.
InitChainSub ==
    /\ keeps = [a \in KeepAddresses |->
                   [created |-> FALSE, publicKey |-> NoPublicKey]]
    /\ handlers = {}
    /\ nextSub = 0
    /\ emitted = <<>>
    /\ calls = {}
    /\ lastSubmit = [n |-> 0, keep |-> NoKeep, key |-> NoPublicKey,
                     err |-> "nil"]

\* The parts followed on their own are at rest.
----------------------------------------------------------------------------
\* Persistence of a ThresholdSigner: Marshal when the signer is stored,
\* Unmarshal when the registry loads it after a restart.  The encoding is a
\* sequence of fields; the entries of the membersNetworkIDs map are written
\* in the order the map is iterated.

MemberIDs == {1, 2, 3}
GroupIDs == {"test-group-id-1", "test-group-id-2"}
ThresholdKeys == {"key-a", "key-b"}
NoSigner == [groupID |-> "none"]
NoBytes == <<>>

\* NetworkID(fmt.Sprintf("member-%d", i))
NetworkID(m) == <<"member", m>>

\* Sequences of distinct member IDs of the given length.
MemberLists(n) ==
    {l \in [1..n -> MemberIDs] : \A i \in 1..n, j \in 1..n :
                                    i # j => l[i] # l[j]}

Range(f) == {f[i] : i \in DOMAIN f}

\* The signers a key generation can produce for groups of 2 or 3 members.
Signers ==
    UNION {{[groupID |-> g, memberID |-> l[i], groupMemberIDs |-> l,
             dishonestThreshold |-> n - 1,
             membersNetworkIDs |-> [m \in Range(l) |-> NetworkID(m)],
             thresholdKey |-> k] :
               g \in GroupIDs, l \in MemberLists(n), i \in 1..n,
               k \in ThresholdKeys} : n \in 2..3}

Field(name, v) == [field |-> name, v |-> v]

\* ThresholdSigner.Marshal, with the map written in the given order.
MarshalSigner(s, order) ==
    <<Field("groupID", s.groupID), Field("memberID", s.memberID)>>
    \o [i \in 1..Len(s.groupMemberIDs) |->
           Field("groupMemberIDs", s.groupMemberIDs[i])]
    \o <<Field("dishonestThreshold", s.dishonestThreshold)>>
    \o [i \in 1..Len(order) |->
           Field("membersNetworkIDs",
                 <<order[i], s.membersNetworkIDs[order[i]]>>)]
    \o <<Field("thresholdKey", s.thresholdKey)>>

FieldsOf(bytes, name) == SelectSeq(bytes, LAMBDA f : f.field = name)

ValuesOf(bytes, name) ==
    [i \in 1..Len(FieldsOf(bytes, name)) |-> FieldsOf(bytes, name)[i].v]

\* An Unmarshal that does not restore the network identifiers.
UnmarshalWithoutNetworkIDs(bytes) ==
    [groupID |-> ValuesOf(bytes, "groupID")[1],
     memberID |-> ValuesOf(bytes, "memberID")[1],
     groupMemberIDs |-> ValuesOf(bytes, "groupMemberIDs"),
     dishonestThreshold |-> ValuesOf(bytes, "dishonestThreshold")[1],
     membersNetworkIDs |-> <<>>,
     thresholdKey |-> ValuesOf(bytes, "thresholdKey")[1]]

\* ThresholdSigner.Unmarshal
UnmarshalSigner(bytes) ==
    [groupID |-> ValuesOf(bytes, "groupID")[1],
     memberID |-> ValuesOf(bytes, "memberID")[1],
     groupMemberIDs |-> ValuesOf(bytes, "groupMemberIDs"),
     dishonestThreshold |-> ValuesOf(bytes, "dishonestThreshold")[1],
     membersNetworkIDs |->
        LET entries == Range(ValuesOf(bytes, "membersNetworkIDs"))
        IN  [m \in {e[1] : e \in entries} |->
                (CHOOSE e \in entries : e[1] = m)[2]],
     thresholdKey |-> ValuesOf(bytes, "thresholdKey")[1]]

\* The signer is marshalled and written to storage.
PersistSigner ==
    /\ stored = NoBytes
    /\ \E order \in MemberLists(Len(signer.groupMemberIDs)) :
          /\ Range(order) = DOMAIN signer.membersNetworkIDs
          /\ stored' = MarshalSigner(signer, order)
    /\ UNCHANGED <<signer, loaded, notMarshalVars>>

\* After a restart the stored bytes are unmarshalled.
LoadSigner ==
    /\ stored # NoBytes
    /\ loaded = NoSigner
    /\ loaded' = UnmarshalSigner(stored)
    /\ UNCHANGED <<signer, stored, notMarshalVars>>

InitMarshal ==
    /\ signer \in Signers
    /\ stored = NoBytes
    /\ loaded = NoSigner

\* No signer is followed.
MarshalIdle ==
    /\ signer = NoSigner
    /\ stored = NoBytes
    /\ loaded = NoSigner

----------------------------------------------------------------------------
\* The rewards distributor, as MerkleDistributorTest.js exercises it: tokens
\* are allocated under a merkle root and every leaf (index, account, amount)
\* of the root's tree is claimed with a proof.

MerkleRoots == {"root1", "root2"}
Accounts == {"acc1", "acc2", "acc3"}
Indexes == {0, 1}
MaxAllocations == 3
MaxClaims == 4
NoClaim == [n |-> 0, root |-> "none", index |-> 0, result |-> "none"]

\* The leaves of the tree under each root.
Claims ==
    [r \in MerkleRoots |->
        IF r = "root1"
        THEN [i \in Indexes |-> IF i = 0 THEN [account |-> "acc1", amount |-> 2]
                                         ELSE [account |-> "acc2", amount |-> 3]]
        ELSE [i \in Indexes |-> IF i = 0 THEN [account |-> "acc1", amount |-> 1]
                                         ELSE [account |-> "acc3", amount |-> 4]]]

\* merkle.tokenTotal
TokenTotal(r) == Claims[r][0].amount + Claims[r][1].amount

\* The proof of a leaf verifies against the root exactly if the leaf is in
\* the root's tree.
ValidProof(r, i, account, amount) ==
    Claims[r][i] = [account |-> account, amount |-> amount]

\* A distributor that keeps no record of claimed rewards.
NeverClaimed(r, i) == FALSE

\* The reward (merkleRoot, index) was claimed.
AlreadyClaimed(r, i) == <<r, i>> \in claimed

\* allocate(merkleRoot, amount), after the tokens were approved
Allocate(r) ==
    /\ allocated["root1"] + allocated["root2"] < MaxAllocations * 5
    /\ allocated[r] < 2 * TokenTotal(r)
    /\ allocated' = [allocated EXCEPT ![r] = @ + TokenTotal(r)]
    /\ balance' = balance + TokenTotal(r)
    /\ UNCHANGED <<claimed, paid, lastClaim, notRewardVars>>

Reverted(r, i, message) ==
    /\ lastClaim' = [n |-> lastClaim.n + 1, root |-> r, index |-> i,
                     result |-> message]
    /\ UNCHANGED <<allocated, claimed, balance, paid, notRewardVars>>

\* claim(merkleRoot, index, account, amount, proof)
Claim(r, i, account, amount) ==
    /\ lastClaim.n < MaxClaims
    /\ allocated[r] > 0
    /\ IF AlreadyClaimed(r, i)
       THEN Reverted(r, i, "Reward already claimed")
       ELSE IF ~ValidProof(r, i, account, amount)
       THEN Reverted(r, i, "Invalid proof")
       ELSE IF balance < amount
       THEN Reverted(r, i, "SafeERC20: low-level call failed")
       ELSE /\ claimed' = claimed \cup {<<r, i>>}
            /\ balance' = balance - amount
            /\ paid' = paid + amount
            /\ lastClaim' = [n |-> lastClaim.n + 1, root |-> r, index |-> i,
                             result |-> "RewardsClaimed"]
            /\ UNCHANGED <<allocated, notRewardVars>>

InitRewards ==
    /\ allocated = [r \in MerkleRoots |-> 0]
    /\ claimed = {}
    /\ balance = 0
    /\ paid = 0
    /\ lastClaim = NoClaim

\* No distributor is followed.
RewardIdle == InitRewards

----------------------------------------------------------------------------
ExtIdle == ScanIdle /\ TxIdle /\ InitChainSub /\ MarshalIdle /\ RewardIdle

----------------------------------------------------------------------------
\* The state when Initialize returns.

Groups ==
    {[size |-> 3, threshold |-> 3, member |-> TRUE],
     [size |-> 3, threshold |-> 2, member |-> TRUE],
     [size |-> 1, threshold |-> 1, member |-> TRUE],
     [size |-> 3, threshold |-> 3, member |-> FALSE]}

CreatedAtStart == [kind |-> "created", d |-> NoDigest, blk |-> 0]

\* The keep was loaded from the registry by LoadExistingKeeps.
InitPersisted ==
    /\ group = [size |-> 3, threshold |-> 3, member |-> TRUE]
    /\ registry = "registered" /\ snapshot = TRUE /\ nodeSubmitted = TRUE
    /\ chainPubKey \in BOOLEAN
    /\ keepActive \in BOOLEAN
    /\ awaiting \in (IF keepActive /\ chainPubKey
                     THEN Digests \cup {NoDigest} ELSE {NoDigest})
    /\ latestDigest = awaiting
    /\ \E endKind \in {"closed", "terminated"} :
          events = {CreatedAtStart}
              \cup (IF awaiting = NoDigest THEN {}
                    ELSE {[kind |-> "sig", d |-> awaiting, blk |-> 0]})
              \cup (IF keepActive THEN {}
                    ELSE {[kind |-> endKind, d |-> NoDigest, blk |-> 0]})
    /\ goroutines = SetToBag(
           {G("startup", "lookup", NoDigest, 0, "none", NoBlock, FALSE),
            G("scan", "scan", NoDigest, 0, "none", NoBlock, FALSE)})

\* The registry holds no signer for the keep.
InitFresh ==
    /\ group \in Groups
    /\ registry = "none" /\ snapshot = FALSE /\ nodeSubmitted = FALSE
    /\ chainPubKey = FALSE
    /\ keepActive = TRUE
    /\ awaiting = NoDigest
    /\ latestDigest = NoDigest
    /\ events \in {{}, {CreatedAtStart}}
    /\ goroutines = SetToBag(
           {G("scan", "scan", NoDigest, 0, "none", NoBlock, FALSE)})

InitNode ==
    /\ requestedBlock = [d \in Digests |-> 0]
    /\ dedup = {}
    /\ crashed = FALSE
    /\ signCalls = [d \in Digests |-> 0]
    /\ keyGenCalls = 0

Init ==
    /\ InitNode
    /\ BroadcastIdle
    /\ ExtIdle
    /\ block = 0
    /\ subs = [created |-> "on", sig |-> "none", closed |-> "none",
               terminated |-> "none"]
    /\ (InitPersisted \/ InitFresh)

ChainNext ==
    \/ MineBlock
    \/ \E d \in Digests : RequestSignature(d)
    \/ SignatureSettled
    \/ CloseKeep
    \/ TerminateKeep
    \/ ReorgReactivate
    \/ CreateKeep
    \/ PublicKeyPublished

DeliverNext ==
    \/ \E e \in events : DeliverKeepCreated(e)
    \/ \E e \in events : DeliverSignatureRequested(e)
    \/ \E e \in events : DeliverKeepClosed(e)
    \/ \E e \in events : DeliverKeepTerminated(e)

SigningNext ==
    \/ \E g \in Running : RetryDeadline(g)
    \/ \E g \in Running : RetryGiveUp(g)
    \/ \E g \in Running : SigEventStart(g)
    \/ \E g \in Running : SigEventConfirm(g)
    \/ \E g \in Running : SigEventCalculate(g)
    \/ \E g \in Running : CheckSigRead(g)
    \/ \E g \in Running : CheckSigStart(g)
    \/ \E g \in Running : CheckSigConfirm(g)
    \/ \E g \in Running : CheckSigCalculate(g)

ClosedNext ==
    \/ \E g \in Running : MonitorClosedSubscribe(g)
    \/ \E g \in Running : ClosedStart(g)
    \/ \E g \in Running : ClosedConfirm(g)
    \/ \E g \in Running : ClosedUnregister(g)
    \/ \E g \in Running : \E m \in Running : ClosedHandOver(g, m)
    \/ \E g \in Running : MonitorClosedUnsubscribe(g)

TerminatedNext ==
    \/ \E g \in Running : MonitorTerminatedSubscribe(g)
    \/ \E g \in Running : TerminatedStart(g)
    \/ \E g \in Running : TerminatedConfirm(g)
    \/ \E g \in Running : TerminatedRecover(g)
    \/ \E g \in Running : TerminatedUnregister(g)
    \/ \E g \in Running : \E m \in Running : TerminatedHandOver(g, m)
    \/ \E g \in Running : MonitorTerminatedUnsubscribe(g)

StartupNext ==
    \/ \E g \in Running : StartupCheckActive(g)
    \/ \E g \in Running : StartupConfirm(g)
    \/ \E g \in Running : StartupUnregister(g)
    \/ \E g \in Running : StartupGetSigner(g)

MonitorSigningNext ==
    \/ \E g \in Running : MonitorSigningSpawnCheck(g)
    \/ \E g \in Running : MonitorSigningSubscribe(g)

KeyGenNext ==
    \/ \E g \in Running : ScanKeeps(g)
    \/ \E g \in Running : CreatedStart(g)
    \/ \E g \in Running : GenerateKeyForKeep(g)
    \/ \E g \in Running : GenerateSigner(g)
    \/ \E g \in Running : PublishPublicKey(g)
    \/ \E g \in Running : RegisterSigner(g)

\* The whole client.
Next ==
    \/ ChainNext
    \/ DeliverNext
    \/ SigningNext
    \/ ClosedNext
    \/ TerminatedNext
    \/ StartupNext
    \/ MonitorSigningNext
    \/ KeyGenNext

Spec == Init /\ [][Next]_vars

----------------------------------------------------------------------------
\* The specifications below follow one part of the client each; the
\* goroutines of the other parts do not run in them.

\* The state when monitorSigningRequests has subscribed for a registered
\* keep and the two monitors have been started.
InitMonitors ==
    /\ InitNode
    /\ BroadcastIdle
    /\ ExtIdle
    /\ block = 0
    /\ subs = [created |-> "on", sig |-> "on", closed |-> "none",
               terminated |-> "none"]
    /\ group = [size |-> 3, threshold |-> 3, member |-> TRUE]
    /\ registry = "registered" /\ snapshot = TRUE /\ nodeSubmitted = TRUE
    /\ chainPubKey = TRUE
    /\ keepActive = TRUE
    /\ awaiting = NoDigest
    /\ latestDigest = NoDigest
    /\ events = {CreatedAtStart}
    /\ goroutines = SetToBag(
           {G("monitorClosed", "subscribe", NoDigest, 0, "none", NoBlock,
              FALSE),
            G("monitorTerminated", "subscribe", NoDigest, 0, "none", NoBlock,
              FALSE)})

\* monitorKeepClosedEvents and monitorKeepTerminatedEvent.
NextMonitors ==
    \/ MineBlock
    \/ CloseKeep
    \/ TerminateKeep
    \/ ReorgReactivate
    \/ \E e \in events : DeliverKeepClosed(e)
    \/ \E e \in events : DeliverKeepTerminated(e)
    \/ ClosedNext
    \/ TerminatedNext

SpecMonitors == InitMonitors /\ [][NextMonitors]_vars

\* The state when monitorSigningRequests is called for a registered keep.
InitSigning ==
    /\ InitNode
    /\ BroadcastIdle
    /\ ExtIdle
    /\ block = 0
    /\ subs = [created |-> "on", sig |-> "none", closed |-> "none",
               terminated |-> "none"]
    /\ group = [size |-> 3, threshold |-> 3, member |-> TRUE]
    /\ registry = "registered" /\ snapshot = TRUE /\ nodeSubmitted = TRUE
    /\ chainPubKey = TRUE
    /\ keepActive \in BOOLEAN
    /\ awaiting \in Digests \cup {NoDigest}
    /\ latestDigest = awaiting
    /\ events = {CreatedAtStart}
           \cup (IF awaiting = NoDigest THEN {}
                 ELSE {[kind |-> "sig", d |-> awaiting, blk |-> 0]})
    /\ goroutines = SetToBag(
           {G("startup", "monitorSigning", NoDigest, 0, "none", NoBlock,
              FALSE)})

\* monitorSigningRequests and checkAwaitingSignature.
NextSigning ==
    \/ MineBlock
    \/ \E d \in Digests : RequestSignature(d)
    \/ SignatureSettled
    \/ \E e \in events : DeliverSignatureRequested(e)
    \/ MonitorSigningNext
    \/ SigningNext

SpecSigning == InitSigning /\ [][NextSigning]_vars

\* monitorSigningRequests is called at startup for an active keep whose
\* latest signature request was emitted while the node was offline; no
\* further request is made.
InitMissedRequest == InitSigning /\ keepActive /\ awaiting # NoDigest

NextMissedRequest ==
    \/ MineBlock
    \/ SignatureSettled
    \/ \E e \in events : DeliverSignatureRequested(e)
    \/ MonitorSigningNext
    \/ SigningNext

SpecMissedRequest == InitMissedRequest /\ [][NextMissedRequest]_vars

\* Initialize, the startup scan and key generation, up to the call of
\* monitorSigningRequests.
NextKeyGen ==
    \/ MineBlock
    \/ CreateKeep
    \/ PublicKeyPublished
    \/ CloseKeep
    \/ ReorgReactivate
    \/ \E e \in events : DeliverKeepCreated(e)
    \/ StartupNext
    \/ KeyGenNext

SpecKeyGen == Init /\ [][NextKeyGen]_vars

\* Initialize, key generation and the end of the keep, without signature
\* requests.
NextLifecycle ==
    \/ NextKeyGen
    \/ TerminateKeep
    \/ MonitorSigningNext
    \/ \E e \in events : DeliverKeepClosed(e)
    \/ \E e \in events : DeliverKeepTerminated(e)
    \/ ClosedNext
    \/ TerminatedNext

SpecLifecycle == Init /\ [][NextLifecycle]_vars

\* Initialize for a keep loaded from the registry: the startup goroutine,
\* monitorSigningRequests and the end of the keep.
InitReconcile == InitNode /\ BroadcastIdle /\ ExtIdle /\ block = 0
    /\ subs = [created |-> "on", sig |-> "none", closed |-> "none",
               terminated |-> "none"]
    /\ InitPersisted /\ awaiting = NoDigest

NextReconcile ==
    \/ MineBlock
    \/ CloseKeep
    \/ TerminateKeep
    \/ ReorgReactivate
    \/ StartupNext
    \/ MonitorSigningNext
    \/ \E g \in Running : ScanKeeps(g)
    \/ \E e \in events : DeliverKeepClosed(e)
    \/ \E e \in events : DeliverKeepTerminated(e)
    \/ ClosedNext
    \/ TerminatedNext

SpecReconcile == InitReconcile /\ [][NextReconcile]_vars

\* One invocation of tss.BroadcastRecoveryAddress; the client is at rest.
InitBroadcastOnly ==
    /\ InitNode
    /\ InitBroadcast
    /\ ExtIdle
    /\ block = 0
    /\ subs = [created |-> "on", sig |-> "on", closed |-> "on",
               terminated |-> "on"]
    /\ group = [size |-> 2, threshold |-> 2, member |-> TRUE]
    /\ registry = "registered" /\ snapshot = TRUE /\ nodeSubmitted = TRUE
    /\ chainPubKey = TRUE
    /\ keepActive = FALSE
    /\ awaiting = NoDigest
    /\ latestDigest = NoDigest
    /\ events = {CreatedAtStart}
    /\ goroutines = EmptyBag

NextBroadcast ==
    \/ \E err \in {"Canceled", "DeadlineExceeded"} : ParentDone(err)
    \/ ProtocolReadyTimeout
    \/ \E s \in Senders : HandleAnnounce(s)
    \/ ReceiveMessage
    \/ ReceiveDone
    \/ SendMessage
    \/ SendAgain
    \/ BroadcastReturn

SpecBroadcast == InitBroadcastOnly /\ [][NextBroadcast]_vars

\* The same with the scheduling of the Go runtime and the timer of
\* context.WithTimeout: a goroutine that can run does run, and the deadline
\* of the context arrives.  Announcements of peers and the end of the parent
\* context are not forced.
SpecBroadcastLive ==
    /\ SpecBroadcast
    /\ WF_vars(ProtocolReadyTimeout)
    /\ WF_vars(ReceiveMessage)
    /\ WF_vars(ReceiveDone)
    /\ WF_vars(SendMessage)
    /\ WF_vars(SendAgain)
    /\ WF_vars(BroadcastReturn)

\* The client of the single keep is at rest.
ClientIdle ==
    /\ InitNode
    /\ block = 0
    /\ subs = [created |-> "on", sig |-> "on", closed |-> "on",
               terminated |-> "on"]
    /\ group = [size |-> 2, threshold |-> 2, member |-> TRUE]
    /\ registry = "registered" /\ snapshot = TRUE /\ nodeSubmitted = TRUE
    /\ chainPubKey = TRUE
    /\ keepActive = FALSE
    /\ awaiting = NoDigest
    /\ latestDigest = NoDigest
    /\ events = {CreatedAtStart}
    /\ goroutines = EmptyBag

\* checkAwaitingKeyGeneration over the factory's keeps.
InitScanOnly ==
    /\ ClientIdle /\ BroadcastIdle /\ InitScan /\ TxIdle /\ InitChainSub
    /\ MarshalIdle /\ RewardIdle

NextScan ==
    \/ Tick
    \/ OpenKeep
    \/ ScanGetKeepCount
    \/ ScanSkipOrStop
    \/ ScanCheckKeep

SpecScan == InitScanOnly /\ [][NextScan]_vars

\* The context passed to Initialize is cancelled.  monitorSigningRequests and
\* checkAwaitingSignature take no context: their operations run under the
\* context of DoWithDefaultRetry(clientConfig.GetSigningTimeout(), ...), and
\* WaitForBlockConfirmations takes none.
ProcessCancelled ==
    /\ parentCtx = "nil"
    /\ parentCtx' = "Canceled"
    /\ UNCHANGED <<input, ctx, msgInChan, memberRecoveryInfo, bpc, result,
                   clientVars, extVars>>

\* The signing jobs of the keep and the cancellation of the process.
NextShutdown ==
    \/ NextSigning
    \/ ProcessCancelled

SpecShutdown == InitSigning /\ [][NextShutdown]_vars

\* Transaction submission of the contract bindings.
InitTxOnly ==
    /\ ClientIdle /\ BroadcastIdle /\ ScanIdle /\ InitTx /\ InitChainSub
    /\ MarshalIdle /\ RewardIdle

NextTx ==
    \/ \E c \in Contracts : TxLock(c)
    \/ \E c \in Contracts : TxNonce(c)
    \/ \E c \in Contracts : TxSubmit(c)

SpecTx == InitTxOnly /\ [][NextTx]_vars

\* A chain handle, its subscribers and the submitters of public keys.
InitChainSubOnly ==
    /\ ClientIdle /\ BroadcastIdle /\ ScanIdle /\ TxIdle /\ InitChainSub
    /\ MarshalIdle /\ RewardIdle

NextChainSub ==
    \/ SubscribeCreated
    \/ \E a \in KeepAddresses : SubscribeSignatureRequested(a)
    \/ \E h \in handlers : Unsubscribe(h)
    \/ \E a \in KeepAddresses : KeepCreated(a)
    \/ \E a \in KeepAddresses, d \in Digests : SignatureRequested(a, d)
    \/ \E a \in KeepAddresses, k \in PublicKeys : SubmitKeepPublicKey(a, k)

SpecChainSub == InitChainSubOnly /\ [][NextChainSub]_vars

\* Storing and reloading a signer.
InitMarshalOnly ==
    /\ ClientIdle /\ BroadcastIdle /\ ScanIdle /\ TxIdle /\ InitChainSub
    /\ InitMarshal /\ RewardIdle

NextMarshal ==
    \/ PersistSigner
    \/ LoadSigner

SpecMarshal == InitMarshalOnly /\ [][NextMarshal]_vars

\* The rewards distributor alone.
InitRewardsOnly ==
    /\ ClientIdle /\ BroadcastIdle /\ ScanIdle /\ TxIdle /\ InitChainSub
    /\ MarshalIdle /\ InitRewards

NextRewards ==
    \/ \E r \in MerkleRoots : Allocate(r)
    \/ \E r \in MerkleRoots, i \in Indexes, account \in Accounts,
          amount \in 1..4 : Claim(r, i, account, amount)

SpecRewards == InitRewardsOnly /\ [][NextRewards]_vars

----------------------------------------------------------------------------
\* Properties.

\* The dedup keys of the keep.
DedupKeys ==
    {Key("KeyGen", NoDigest), Key("Closing", NoDigest),
     Key("Terminating", NoDigest)} \cup {Key("Signing", d) : d \in Digests}

\* Goroutines running CalculateSignature for digest d.
Signing(d) ==
    LET S == {g \in Running : g.pc = "sign" /\ g.d = d}
    IN  BagCardinality([g \in S |-> goroutines[g]])

\* Goroutines about to start an attempt of the signing operation for d.
Attempts(fn, d) ==
    LET S == {g \in Running : g.fn = fn /\ g.pc = "start" /\ g.d = d}
    IN  BagCardinality([g \in S |-> goroutines[g]])

\* C1: for every dedup key, at most one handler holds the key at any time,
\* and a handler holds it exactly while the deduplicator records the key as
\* started: Notify...Started answered true to no second caller before the
\* matching Notify...Completed.
C1_AtMostOneHolder ==
    \A k \in DedupKeys :
        /\ Holders(k[1], k[2]) <= 1
        /\ (k \in dedup) <=> (Holders(k[1], k[2]) = 1)

\* C1 witness: a handler holds the closing key while a second handler of the
\* same KeepClosed event is about to call NotifyClosingStarted.
C1_Witness ==
    /\ Holders("Closing", NoDigest) = 1
    /\ \E g \in Running :
          g.fn = "closedEvent" /\ g.pc = "start" /\ g.key = "none"

\* C2 as stated: the same request delivered twice leads to exactly one
\* CalculateSignature invocation for the digest, so never to a second one.
C2_ExactlyOneCalculateSignature == \A d \in Digests : signCalls[d] <= 1

\* C2 amended: while a handler holds the signing key of a digest no other
\* handler of that digest proceeds, so at most one CalculateSignature runs
\* for the digest at a time, and the one running holds the key.
C2_OneSigningAtATime ==
    \A d \in Digests :
        /\ Holders("Signing", d) <= 1
        /\ Signing(d) <= 1
        /\ \A g \in Running : g.pc = "sign" /\ g.d = d => g.key = "Signing"

\* C2 witness: CalculateSignature runs for a digest in the handler of the
\* event while the startup check of the same digest is about to call
\* NotifySigningStarted.
C2_Witness ==
    \E g, h \in Running :
        /\ g.fn = "sigEvent" /\ g.pc = "sign" /\ g.key = "Signing"
        /\ h.fn = "checkSig" /\ h.pc = "start" /\ h.d = g.d

\* C3: CalculateSignature is invoked for a digest only in a step of a
\* handler whose confirmation wait is over (block >= requested block + 12)
\* and while the keep is awaiting that digest; a handler whose re-check
\* answers false returns, nothing is signed and it starts no new attempt.
C3_SignOnlyWhenConfirmed ==
    [][\A d \in Digests :
          /\ signCalls'[d] # signCalls[d] =>
                /\ awaiting = d
                /\ \E g \in Running :
                      /\ g.pc = "confirm" /\ g.d = d /\ g.key = "Signing"
                      /\ block >= g.blk + blockConfirmations
          /\ \A g \in Running :
                (/\ g.fn = "sigEvent" /\ g.pc = "confirm" /\ g.d = d
                 /\ ~g.fault /\ awaiting # d
                 /\ Key("Signing", d) \notin dedup')
                => /\ signCalls'[d] = signCalls[d]
                   /\ Signing(d)' = 0
                   /\ Attempts("sigEvent", d)' = Attempts("sigEvent", d)
                   /\ Alive("sigEvent")' = Alive("sigEvent") - 1]_vars

\* C3 witness: CalculateSignature runs after a confirmation that ended at
\* or after the 12th block following the request.
C3_Witness ==
    \E g \in Running :
        /\ g.fn = "sigEvent" /\ g.pc = "sign"
        /\ g.conf >= g.blk + blockConfirmations
        /\ signCalls[g.d] = 1

\* C7 as stated: when CalculateSignature returns an error before the signing
\* deadline (the key is released and the keep still awaits the digest), the
\* operation is invoked again: the goroutine starts a new attempt.
C7_RetriedAfterError ==
    [][\A g \in Running :
          (/\ g.pc = "sign" /\ ~g.exp
           /\ awaiting = g.d /\ awaiting' = g.d
           /\ Key("Signing", g.d) \notin dedup')
          => Attempts(g.fn, g.d)' = Attempts(g.fn, g.d) + 1]_vars

\* The confirmation of goroutine g passed: keep.IsActive was read as false
\* at block g.conf, at least blockConfirmations after the triggering block.
ConfirmedAfterWait(g) ==
    g.conf # NoBlock /\ g.conf >= g.blk + blockConfirmations

\* C4: a goroutine about to call UnregisterKeep (startup reconciliation,
\* KeepClosed handler, KeepTerminated handler) has waited at least 12 blocks
\* from its triggering block and then read keep.IsActive as false, and the
\* keep leaves the registry only in a step of such a goroutine.
C4_UnregisterOnlyConfirmed ==
    /\ [](\A g \in Running : g.pc = "unregister" => ConfirmedAfterWait(g))
    /\ [][registry = "registered" /\ registry' # "registered" =>
             \E g \in Running :
                 /\ g.fn \in {"startup", "closedEvent", "terminatedEvent"}
                 /\ g.pc = "unregister"
                 /\ ConfirmedAfterWait(g)]_vars

\* C4 witness: the KeepClosed handler has unregistered the keep after its
\* confirmation.
C4_Witness ==
    /\ registry = "archived"
    /\ \E g \in Running :
          g.fn = "closedEvent" /\ g.pc = "send" /\ ConfirmedAfterWait(g)

\* C5 as stated: once the KeepTerminated handler has confirmed the
\* termination, the keep is unregistered even when a step of the liquidation
\* recovery fails: the handler does not return (releasing its key) from the
\* recovery while the keep is still registered.
C5_UnregisteredDespiteFailure ==
    [][\A g \in Running :
          (/\ g.fn = "terminatedEvent" /\ g.pc = "recover"
           /\ ConfirmedAfterWait(g)
           /\ Key("Terminating", NoDigest) \notin dedup')
          => registry' # "registered"]_vars

\* C6 as stated: GenerateSignerForKeep is started at most once for the keep
\* in the lifetime of the process.
C6_KeyGenAtMostOnce == keyGenCalls <= 1

MonitorsStep ==
    \/ \E e \in events : DeliverKeepClosed(e)
    \/ \E e \in events : DeliverKeepTerminated(e)
    \/ ClosedNext
    \/ TerminatedNext

\* C10 as stated: after a confirmed KeepClosed the keep is unregistered,
\* every subscription of the keep is unsubscribed and every monitor
\* goroutine ends.  Once monitorKeepClosedEvents has run its deferred calls
\* and the node can take no further step, all of that has happened.
C10_ClosedReleasesEverything ==
    (subs.closed = "off" /\ ~ENABLED MonitorsStep) =>
        /\ registry # "registered"
        /\ subs.sig # "on" /\ subs.terminated # "on"
        /\ Alive("monitorClosed") = 0 /\ Alive("monitorTerminated") = 0

\* C8 as stated: BroadcastRecoveryAddress returns without error only if an
\* announcement of every group member was recorded, so that the returned
\* list holds one address per member; with an error it returns no list.
C8_SuccessOnlyWhenAllAnnounced ==
    /\ result.err = "nil" =>
          Len(result.addresses) = Cardinality(GroupMemberIDs)
    /\ result.err \notin {"none", "nil"} => result.addresses = <<>>

\* C11 as stated: key generation is started only after the reorg
\* confirmation, so every step that invokes GenerateSignerForKeep is taken
\* by a goroutine of generateKeyForKeep when the chain has reached the
\* creation event's block plus blockConfirmations.
C11_KeyGenOnlyConfirmed ==
    [][keyGenCalls' # keyGenCalls =>
          \E g \in Running :
              /\ g.pc = "generate"
              /\ block >= g.blk + blockConfirmations]_vars

\* C12: the liquidation recovery is run only by a KeepTerminated handler
\* that waited until the event's block plus blockConfirmations and then
\* read keep.IsActive as false; a handler whose wait failed or that read
\* the keep as active starts no recovery.
C12_RecoveryOnlyConfirmed ==
    /\ [](\A g \in Running :
             g.fn = "terminatedEvent" /\ g.pc = "recover"
                 => ConfirmedAfterWait(g))
    /\ [][\A h \in BagToSet(goroutines') :
             (/\ h.fn = "terminatedEvent" /\ h.pc = "recover"
              /\ (h \notin Running \/ goroutines'[h] > goroutines[h]))
             => \E g \in Running :
                    /\ g.fn = "terminatedEvent" /\ g.pc = "confirm"
                    /\ g.key = "Terminating"
                    /\ ~keepActive
                    /\ block >= g.blk + blockConfirmations
                    /\ h.conf = block]_vars

\* C12 witness: a confirmed KeepTerminated handler is about to run the
\* recovery for the registered keep.
C12_Witness ==
    /\ registry = "registered"
    /\ ~keepActive
    /\ \E g \in Running :
          /\ g.fn = "terminatedEvent" /\ g.pc = "recover"
          /\ ConfirmedAfterWait(g)

\* Goroutines of generateKeyForKeep at position pc.
KeyGenAt(pc) ==
    LET S == {g \in Running :
                 g.fn \in {"createdEvent", "scanKeyGen"} /\ g.pc = pc}
    IN  BagCardinality([g \in S |-> goroutines[g]])

\* A step in which generateSignerForKeep returned an error: a goroutine
\* left the protocol without a stored signer, or left the submission of the
\* public key without a submission, and the process did not panic.
KeyGenFailureStep ==
    /\ ~crashed'
    /\ \/ KeyGenAt("tss")' < KeyGenAt("tss")
             /\ KeyGenAt("publish")' = KeyGenAt("publish")
       \/ KeyGenAt("publish")' < KeyGenAt("publish")
             /\ nodeSubmitted' = nodeSubmitted

\* C13: when generateSignerForKeep fails or times out, generateKeyForKeep
\* returns: that step registers no signer, creates no subscription, starts
\* no monitor and brings no goroutine to RegisterSigner; one goroutine ends.
C13_AbandonedOnFailure ==
    [][KeyGenFailureStep =>
          /\ registry' = registry
          /\ subs' = subs
          /\ KeyGenAt("register")' = KeyGenAt("register")
          /\ KeyGenAt("monitorSigning")' = KeyGenAt("monitorSigning")
          /\ Alive("monitorClosed")' = Alive("monitorClosed")
          /\ Alive("monitorTerminated")' = Alive("monitorTerminated")
          /\ Alive("createdEvent")' + Alive("scanKeyGen")'
                = Alive("createdEvent") + Alive("scanKeyGen") - 1]_vars

\* C13 witness: the only key generation of the keep failed in the protocol;
\* the keep has no signer and no subscription.
C13_Witness ==
    /\ keyGenCalls = 1
    /\ ~snapshot /\ ~nodeSubmitted /\ ~crashed
    /\ Alive("createdEvent") + Alive("scanKeyGen") = 0
    /\ registry = "none"
    /\ subs.sig = "none" /\ subs.closed = "none" /\ subs.terminated = "none"

\* C14: for a keep with fewer than 2 members or with an honest threshold
\* other than the group size, GenerateSignerForKeep is never invoked, no
\* signer is stored or registered and no per-keep subscription or monitor
\* exists, whether generateKeyForKeep was called by the event handler or by
\* the startup scan.
C14_UnsupportedGroupRefused ==
    (group.size < 2 \/ group.threshold # group.size) =>
        /\ keyGenCalls = 0
        /\ ~snapshot /\ ~nodeSubmitted /\ registry = "none"
        /\ subs.sig # "on" /\ subs.closed # "on" /\ subs.terminated # "on"
        /\ \A g \in Running :
              /\ g.fn \in {"scan", "createdEvent", "scanKeyGen"}
              /\ g.pc \in {"scan", "start", "generate"}

\* C14 witness: generateKeyForKeep runs for an unsupported group on both
\* paths, called by the handler of the created event and by the startup scan.
C14_Witness ==
    /\ group.size < 2 \/ group.threshold # group.size
    /\ \E g \in Running : g.fn = "createdEvent" /\ g.pc = "generate"
    /\ \E g \in Running : g.fn = "scanKeyGen" /\ g.pc = "generate"

\* C15 as stated: when the keep was awaiting digest d at startup and is
\* still awaiting it, active, blockConfirmations after the request, the node
\* invokes CalculateSignature for d: it does not come to rest (the startup
\* goroutine, checkAwaitingSignature and every handler returned) without
\* having invoked it.
C15_MissedRequestSigned ==
    \A d \in Digests :
        (/\ awaiting = d /\ latestDigest = d /\ keepActive
         /\ block >= requestedBlock[d] + blockConfirmations
         /\ ~crashed
         /\ Alive("startup") = 0
         /\ Alive("checkSig") = 0
         /\ Alive("sigEvent") = 0)
        => signCalls[d] >= 1

\* C16 as stated: checkAwaitingSignature reads latestDigest only when the
\* signature-requested subscription is installed: it is never past its read
\* while the caller of monitorSigningRequests has yet to call
\* keep.OnSignatureRequested.
C16_SubscribedBeforeCheck ==
    \A g \in Running :
        g.fn = "checkSig" /\ g.pc # "latest"
            => /\ subs.sig # "none"
               /\ \A m \in Running : m.pc # "subscribe"

\* The keep has none of the three per-keep subscriptions and no goroutine
\* that would create one.
NoSubscriptions ==
    /\ subs.sig = "none" /\ subs.closed = "none" /\ subs.terminated = "none"
    /\ Alive("monitorClosed") = 0
    /\ Alive("monitorTerminated") = 0
    /\ Alive("checkSig") = 0

\* Goroutine g takes a step that is no panic of the process.
Stepped(g) ==
    /\ ~crashed'
    /\ (g \notin BagToSet(goroutines') \/ goroutines'[g] < goroutines[g])

\* C17: at startup, the goroutine of a loaded keep calls UnregisterKeep only
\* after keep.IsActive read false again blockConfirmations after the current
\* block, and then returns: the keep is archived without any subscription.
\* A goroutine that reaches GetSigner for a registered keep goes on to
\* monitorSigningRequests, and when the signature-requested subscription is
\* installed both monitors are started, each of which installs its own
\* subscription or returns on a failed call.
C17_StartupReconciliation ==
    /\ [](\A g \in Running :
             g.fn = "startup" /\ g.pc = "unregister"
                 => ConfirmedAfterWait(g) /\ NoSubscriptions)
    /\ [][(\E g \in Running : g.fn = "startup" /\ g.pc = "unregister")
             /\ Alive("startup")' < Alive("startup")
             => /\ registry' = "archived"
                /\ NoSubscriptions'
                /\ Alive("startup")' = 0]_vars
    /\ [][\A g \in Running :
             (/\ g.fn = "startup" /\ g.pc = "getSigner"
              /\ HasSigner /\ Stepped(g))
             => \E h \in BagToSet(goroutines') :
                    h.fn = "startup" /\ h.pc = "monitorSigning"]_vars
    /\ [][subs.sig = "none" /\ subs'.sig = "on"
             => /\ Alive("monitorClosed")' = 1
                /\ Alive("monitorTerminated")' = 1]_vars
    /\ [][\A m \in Running :
             (/\ m.fn \in {"monitorClosed", "monitorTerminated"}
              /\ m.pc = "subscribe"
              /\ Stepped(m)
              /\ Alive(m.fn)' = Alive(m.fn))
             => IF m.fn = "monitorClosed" THEN subs'.closed = "on"
                ELSE subs'.terminated = "on"]_vars

\* C17 witness: the startup goroutine of an active, registered keep has
\* returned and the keep has its three subscriptions.
C17_Witness ==
    /\ registry = "registered" /\ keepActive
    /\ Alive("startup") = 0
    /\ subs.sig = "on" /\ subs.closed = "on" /\ subs.terminated = "on"
    /\ keyGenCalls = 0

Pos(a) == CHOOSE i \in 1..Len(Addresses) : Addresses[i] = a

C21_ScanStopsAtOldKeep ==
    /\ [](/\ scanLog.started \subseteq scanLog.examined
          /\ scanLog.examined \subseteq scanLog.visited
          /\ scanLog.stoppedAt # NoIndex =>
                /\ scan.pc = "done"
                /\ \A j \in scanLog.visited : j >= scanLog.stoppedAt
                /\ \A j \in scanLog.examined : j > scanLog.stoppedAt)
    /\ [][/\ scan'.keepIndex # scan.keepIndex /\ scan.pc = "loop" =>
                scan'.keepIndex = scan.keepIndex - 1
          /\ scanLog.stoppedAt # NoIndex => scanLog' = scanLog
          /\ scanLog'.examined # scanLog.examined =>
                /\ scanLog'.examined = scanLog.examined \cup {scan.keepIndex}
                /\ \A i \in scan.keepIndex .. Len(factory) - 1 :
                      KeepAt(i).opened + lookbackPeriod >= now
          /\ scanLog'.stoppedAt # scanLog.stoppedAt =>
                /\ scanLog'.stoppedAt = scan.keepIndex
                /\ KeepAt(scan.keepIndex).opened + lookbackPeriod < now]_vars

C21_Witness ==
    /\ scanLog.stoppedAt # NoIndex
    /\ scanLog.stoppedAt > 0
    /\ scanLog.started # {}
    /\ KeepAt(0).pubKeyEmpty /\ ~KeepAt(0).hasSigner /\ KeepAt(0).isMember

\* C22: the startup scan starts key generation for a keep only if the keep's
\* on-chain public key is empty, the registry holds no signer for it and the
\* operator is one of its members; a keep with a persisted signer and an
\* empty on-chain key is checked without key generation being started.
C22_ScanStartsOnlyAwaiting ==
    /\ [](\A i \in scanLog.started :
             /\ KeepAt(i).pubKeyEmpty
             /\ ~KeepAt(i).hasSigner
             /\ KeepAt(i).isMember)
    /\ [][\A i \in scanLog'.examined \ scanLog.examined :
             KeepAt(i).hasSigner /\ KeepAt(i).pubKeyEmpty =>
                i \notin scanLog'.started]_vars

C22_Witness ==
    \E i \in scanLog.examined \ scanLog.started, j \in scanLog.started :
       /\ KeepAt(i).pubKeyEmpty /\ KeepAt(i).hasSigner /\ KeepAt(i).isMember
       /\ j < i

\* C23: for a keep whose member list does not contain the operator's
\* address, the created event makes the client take no dedup key, start no
\* key generation, persist no signer and install no subscription for the
\* keep.
C23_NonMemberIgnored ==
    ~group.member =>
       /\ dedup = {}
       /\ keyGenCalls = 0
       /\ registry = "none" /\ ~snapshot /\ ~nodeSubmitted
       /\ subs.sig # "on" /\ subs.closed # "on" /\ subs.terminated # "on"
       /\ \A g \in BagToSet(goroutines) : g.fn = "scan"

C23_Witness ==
    /\ ~group.member
    /\ subs.created = "on"
    /\ EventsOf("created") # {}
    /\ goroutines = EmptyBag
    /\ block > 0

\* Handlers of the signature event that hold the key of a digest: they wait
\* for the confirmations or sign.
InProgress(d) ==
    {g \in Running : g.fn = "sigEvent" /\ g.key = "Signing" /\ g.d = d}

\* C24: requests for different digests of the keep are handled
\* concurrently.  While a handler for d1 waits for confirmations or signs,
\* (a) the event of a digest d2 # d1 can be delivered to a new handler,
\* (b) a handler for d2 at NotifySigningStarted can take the key of d2 when
\* the keep awaits d2 and no handler holds that key, and (c) a handler for
\* d2 that returns as a duplicate does so because the key of d2 is held or
\* the keep does not await d2.
C24_DigestsHandledConcurrently ==
    /\ [](\A d1 \in Digests : InProgress(d1) # {} =>
             /\ \A e \in EventsOf("sig") :
                   (e.d # d1 /\ subs.sig = "on"
                      /\ Alive("sigEvent") < MaxHandlers)
                   => ENABLED DeliverSignatureRequested(e)
             /\ \A g \in Running :
                   (g.fn = "sigEvent" /\ g.pc = "start" /\ ~g.exp
                      /\ g.d # d1 /\ awaiting = g.d
                      /\ Key("Signing", g.d) \notin dedup)
                   => ENABLED (SigEventStart(g)
                                  /\ Key("Signing", g.d) \in dedup'))
    /\ [][\A g \in Running :
             (g.fn = "sigEvent" /\ g.pc = "start" /\ ~g.exp
                /\ goroutines' = Exit(goroutines, g))
             => (Key("Signing", g.d) \in dedup \/ awaiting # g.d)]_vars

C24_Witness ==
    \E d1 \in Digests, d2 \in Digests :
       /\ d1 # d2
       /\ \E g \in InProgress(d1) : g.pc \in {"confirm", "sign"}
       /\ \E g \in InProgress(d2) : g.pc = "sign"

\* C25 as stated: when both a KeepClosed and a KeepTerminated event were
\* emitted for the keep, both monitors had subscribed and a handler has
\* unregistered the keep, then once no handler or monitor can take a step
\* every subscription of the keep is unsubscribed and no handler or monitor
\* goroutine is left blocked.
C25_BothTerminalEventsSettle ==
    (/\ EventsOf("closed") # {} /\ EventsOf("terminated") # {}
     /\ ~keepActive
     /\ registry # "registered"
     /\ subs.closed # "none" /\ subs.terminated # "none"
     /\ ~ENABLED (ClosedNext \/ TerminatedNext)) =>
        /\ subs.sig # "on" /\ subs.closed # "on" /\ subs.terminated # "on"
        /\ goroutines = EmptyBag

\* The monitors that have received from their channel and run their
\* deferred Unsubscribe calls next.
Unsubscribing(bag) ==
    {m \in BagToSet(bag) :
        m.fn \in {"monitorClosed", "monitorTerminated"} /\ m.pc = "unsub"}

\* C26: the signature subscription of the keep is unsubscribed only by a
\* monitor that received from a KeepClosed or KeepTerminated handler which
\* had confirmed the keep inactive after the confirmation wait and had
\* unregistered it; a handler whose confirmation does not pass (the keep
\* reads active, or the check fails) returns with the subscriptions and the
\* monitors as they were.
C26_SigUnsubscribedAfterUnregister ==
    [][/\ (subs.sig = "on" /\ subs'.sig # "on" /\ ~crashed') =>
             /\ registry # "registered"
             /\ Unsubscribing(goroutines) # {}
       /\ Unsubscribing(goroutines') \ Unsubscribing(goroutines) # {} =>
             /\ registry # "registered"
             /\ \E g \in Running :
                   /\ g.fn \in {"closedEvent", "terminatedEvent"}
                   /\ g.pc = "send"
                   /\ ConfirmedAfterWait(g)
                   /\ Stepped(g)
       /\ \A g \in Running :
             (/\ g.fn \in {"closedEvent", "terminatedEvent"}
              /\ g.pc = "confirm"
              /\ goroutines' = Exit(goroutines, g))
             => subs' = subs]_vars

C26_Witness ==
    /\ subs.sig = "off"
    /\ registry = "archived"
    /\ ~keepActive
    /\ Alive("monitorClosed") + Alive("monitorTerminated") = 1

\* C27 as stated: once the process-wide context is cancelled, every step of
\* an in-flight signing job (waiting for the confirmations or signing) ends
\* the job: it starts no CalculateSignature, makes no further attempt and
\* does not go on to its own signing deadline.
C27_CancellationStopsSigning ==
    [][parentCtx = "Canceled" =>
          \A g \in Running :
             (/\ g.fn \in {"sigEvent", "checkSig"}
              /\ g.pc \in {"confirm", "sign"}
              /\ Stepped(g))
             => goroutines' = Exit(goroutines, g)]_vars

\* C28: the contract bindings of the process lock one transaction mutex,
\* so that at most one of them is between locking and submitting, the nonce
\* a binding holds is the account's next pending nonce (every earlier
\* transaction has been submitted), and the submitted transactions carry
\* pairwise different nonces.
C28_NoncesSerialized ==
    /\ Cardinality({c \in Contracts : txs[c].pc # "idle"}) <= 1
    /\ Cardinality(locks) <= 1
    /\ \A c \in Contracts : txs[c].pc = "nonce" => txs[c].nonce = nextNonce
    /\ \A i \in 1..Len(submitted) : \A j \in 1..Len(submitted) :
          i < j => submitted[i].nonce < submitted[j].nonce

C28_Witness ==
    /\ Len(submitted) = 2
    /\ submitted[1].by # submitted[2].by
    /\ \E c \in Contracts : txs[c].pc = "nonce" /\ c # submitted[2].by

\* C29: once SubmitKeepPublicKey has succeeded for a keep, every further
\* SubmitKeepPublicKey for the keep, with the same or another key, returns
\* the error "public key already submitted for keep [address]", and no step
\* changes the stored public key.
C29_PublicKeySubmittedOnce ==
    [][\A a \in KeepAddresses :
          keeps[a].publicKey # NoPublicKey =>
             /\ keeps'[a].publicKey = keeps[a].publicKey
             /\ (lastSubmit'.n # lastSubmit.n /\ lastSubmit'.keep = a) =>
                   lastSubmit'.err = "public key already submitted for keep"]_vars

C29_Witness ==
    \E a \in KeepAddresses :
       /\ keeps[a].publicKey = "pk1"
       /\ lastSubmit.n = 3
       /\ lastSubmit.keep = a
       /\ lastSubmit.key = "pk2"
       /\ lastSubmit.err = "public key already submitted for keep"

\* The handlers the event at position n of the chain's history is for.
Subscribed(hs, e) ==
    {h \in hs : \/ e.kind = "created" /\ h.kind = "created"
                \/ e.kind = "sig" /\ h.kind = "sig" /\ h.keep = e.keep}

\* C30: when a keep is created (a signature is requested from a keep), every
\* handler installed through OnBondedECDSAKeepCreated (OnSignatureRequested
\* for that keep) and not unsubscribed is invoked once with an event that
\* carries the keep's address (the digest); no other handler is invoked, and
\* nothing else invokes a handler.
C30_SubscribersInvoked ==
    [][IF Len(emitted') = Len(emitted) + 1
       THEN LET n == Len(emitted')
                e == emitted'[n]
            IN  /\ calls \subseteq calls'
                /\ \A h \in Subscribed(handlers, e) :
                      \E c \in calls' \ calls :
                         /\ c.sub = h.id /\ c.at = n
                         /\ e.kind = "created" => c.event.KeepAddress = e.keep
                         /\ e.kind = "sig" => c.event.Digest = e.digest
                /\ \A c \in calls' \ calls :
                      /\ c.at = n
                      /\ \E h \in Subscribed(handlers, e) : h.id = c.sub
                /\ Cardinality(calls' \ calls)
                      = Cardinality(Subscribed(handlers, e))
       ELSE calls' = calls]_vars

C30_Witness ==
    /\ Len(emitted) = 3
    /\ \A h \in handlers : h.id # 1
    /\ \E c \in calls : c.sub = 1 /\ c.at = 1 /\ c.event.KeepAddress = "k1"
    /\ \E c \in calls : c.sub = 1 /\ c.at = 2 /\ c.event.KeepAddress = "k2"
    /\ \E c \in calls : c.sub = 2 /\ c.at = 3 /\ c.event.Digest = "d2"
    /\ \A c \in calls : c.sub = 1 => c.at < 3

RECURSIVE ClaimedTotal(_)
ClaimedTotal(S) ==
    IF S = {} THEN 0
    ELSE LET c == CHOOSE c \in S : TRUE
         IN  Claims[c[1]][c[2]].amount + ClaimedTotal(S \ {c})

\* C33: a reward (merkleRoot, index) is claimed at most once: a claim of a
\* reward already claimed reverts with "Reward already claimed" and moves no
\* tokens, and the distributor's balance is the allocated total minus the
\* amounts of the rewards claimed.
C33_ClaimedAtMostOnce ==
    /\ [](/\ balance = allocated["root1"] + allocated["root2"] - paid
          /\ paid = ClaimedTotal(claimed))
    /\ [][\A r \in MerkleRoots, i \in Indexes :
            (/\ <<r, i>> \in claimed
             /\ lastClaim'.n # lastClaim.n
             /\ lastClaim'.root = r
             /\ lastClaim'.index = i)
            => /\ lastClaim'.result = "Reward already claimed"
               /\ balance' = balance
               /\ claimed' = claimed]_vars

\* A claimed reward was claimed again and the call reverted, with rewards of
\* both roots claimed.
C33_Witness ==
    /\ lastClaim.result = "Reward already claimed"
    /\ <<lastClaim.root, lastClaim.index>> \in claimed
    /\ \E i \in Indexes, j \in Indexes :
          {<<"root1", i>>, <<"root2", j>>} \subseteq claimed
    /\ balance > 0

\* C32: the sending goroutine calls sendMessage once at the start and once
\* more, and the second call comes only after the context has ended; when
\* the receive set has become complete the context has ended and the second
\* call follows.
C32_SendsTwice ==
    /\ [][bpc'.send # bpc.send =>
            \/ bpc.send = "first" /\ bpc'.send = "wait"
            \/ bpc.send = "wait" /\ bpc'.send = "done" /\ ctx # "nil"]_vars
    /\ [](AllGathered(memberRecoveryInfo) => ctx # "nil")
    /\ (AllGathered(memberRecoveryInfo) ~> bpc.send = "done")

\* Both calls were made, the second after every member had announced.
C32_Witness ==
    /\ bpc.send = "done"
    /\ bpc.sent
    /\ AllGathered(memberRecoveryInfo)
    /\ ctx = "Canceled"

\* C36: once the context is done the receiving goroutine records no further
\* announcement, so memberRecoveryInfo does not change while or after the
\* caller reads it.
C36_NoRecordAfterDone ==
    [][ctx # "nil" => memberRecoveryInfo' = memberRecoveryInfo]_vars

\* C37: memberRecoveryInfo holds entries of group members only and never
\* more than the group has members; an announcement of a sender that is no
\* member is dropped without a change of the map or of the context, and an
\* announcement of a member already recorded adds no entry.
C37_OnlyGroupMembersRecorded ==
    /\ [](/\ Recorded(memberRecoveryInfo) \subseteq GroupMemberIDs
          /\ Cardinality(Recorded(memberRecoveryInfo))
                <= Cardinality(GroupMemberIDs))
    /\ [][(msgInChan # <<>> /\ msgInChan' = Tail(msgInChan)) =>
            LET s == Head(msgInChan).SenderID
            IN  /\ s \notin GroupMemberIDs =>
                      /\ memberRecoveryInfo' = memberRecoveryInfo
                      /\ ctx' = ctx
                /\ s \in Recorded(memberRecoveryInfo) =>
                      Recorded(memberRecoveryInfo')
                         = Recorded(memberRecoveryInfo)]_vars

\* The announcement of the peer is recorded, and an announcement of the
\* outsider and a repeated one of the peer are in the channel.
C37_Witness ==
    /\ Recorded(memberRecoveryInfo) = {"m2"}
    /\ Len(msgInChan) = 2
    /\ msgInChan[1].SenderID = Outsider
    /\ msgInChan[2].SenderID = "m2"
    /\ ctx = "nil"

C35_FailedLookupSkipsKeep ==
    [][(\E g \in DOMAIN goroutines :
           \/ g.fn = "startup" /\ g.pc = "lookup"
           \/ g.fn = "createdEvent" /\ g.pc = "start")
       => (crashed' => crashed)]_vars

\* C34: a handler that holds its dedup key and has reached the send on
\* keepClosed or keepTerminated is not left without a receiver: the monitor
\* of its event still waits on the channel, so the send completes and the
\* deferred Notify...Completed runs.
C34_HandlersComplete ==
    \A g \in Running :
        (g.pc = "send" /\ g.key # "none"
         /\ g.fn \in {"closedEvent", "terminatedEvent"}) =>
            \E m \in Running :
                /\ m.pc = "wait"
                /\ m.fn = IF g.fn = "closedEvent" THEN "monitorClosed"
                                                  ELSE "monitorTerminated"

\* C38: the signature-requested subscription of the keep is created only
\* with the signer registered, a goroutine that leaves RegisterSigner
\* without a registered signer creates no subscription and starts nothing,
\* and the closed and terminated monitors are started only in the step in
\* which the signature-requested subscription was created.
C38_SubscriptionsNeedSigner ==
    [][/\ (subs.sig # "on" /\ subs'.sig = "on") => registry = "registered"
       /\ (\E g \in Running :
              /\ g.pc = "register"
              /\ Stepped(g)
              /\ registry' # "registered") =>
             /\ subs' = subs
             /\ \A fn \in {"monitorClosed", "monitorTerminated", "checkSig"} :
                    Alive(fn)' = Alive(fn)
       /\ (\/ Alive("monitorClosed")' > Alive("monitorClosed")
           \/ Alive("monitorTerminated")' > Alive("monitorTerminated")) =>
             (subs.sig # "on" /\ subs'.sig = "on")]_vars

\* The signer is registered, the signature-requested subscription failed
\* and the caller returned: no subscription and no monitor exists.
C38_Witness ==
    /\ registry = "registered"
    /\ subs.sig = "none" /\ subs.closed = "none" /\ subs.terminated = "none"
    /\ Alive("checkSig") > 0
    /\ \A g \in Running : g.fn \notin {"startup", "createdEvent", "scanKeyGen",
                                       "monitorClosed", "monitorTerminated"}

\* C39: on the path of the SignatureRequested event and on the path of
\* checkAwaitingSignature alike, CalculateSignature is started only when
\* the re-check after the confirmations finds the keep awaiting the digest
\* and active.
C39_SignsOnlyForActiveKeep ==
    [][\A g \in Running :
          (/\ g.fn \in {"sigEvent", "checkSig"}
           /\ g.pc = "confirm"
           /\ Stepped(g)
           /\ signCalls'[g.d] > signCalls[g.d])
          => (awaiting = g.d /\ keepActive)]_vars

====
